---- MODULE Spec2Model ----
(***************************************************************************)
(* Integration execution pipeline of crowd.dev: integration runs, their    *)
(* streams, the stream worker's processStream and the queues that drive    *)
(* them.  One state per database row, one action per awaited step.         *)
(***************************************************************************)
EXTENDS Integers, Sequences, FiniteSets, TLC

(* ------------------------------ bounds --------------------------------- *)
\* stream rows that can exist
MaxStreams == 2
\* data rows that can exist
MaxData == 1
\* undeleted queue messages kept per stream (further copies are merged)
MaxDup == 2
\* clock ticks
MaxTicks == 1
\* visibility timeouts that pass while a message is being processed
MaxTimeouts == 1
\* WORKER_SETTINGS().maxStreamRetries
maxStreamRetries == 1
maxConcurrentMessageProcessing == 2
MaxSends == 3
MaxReceives == 3
MaxMs == 1

(* ------------------------------ domains -------------------------------- *)
RunIds == {10}
Workers == {1, 2}
\* the identifiers generateStreams gives its root streams, and those a handler
\* gives the streams it publishes
RootIdentifiers == {"a"}
Identifiers == {"a", "b"}
RateLimitResetSeconds == {0, 60}
TickSeconds == 15 * 60
NULL == 0 - 1
\* stream retries are not counted past this value
RetriesCap == maxStreamRetries + 2

\* top-level keys and values of integrations.settings (JSON)
SettingsKeys == {"posts", "lastSync"}
SettingsValues == {"null", "2024-01-01"}
\* the posts a handler can have after it recorded a timestamp
PostsValues == {"[p]"}
InitialSettings == [k \in SettingsKeys |-> IF k = "posts" THEN "[]" ELSE "null"]
\* the objects a handler can pass to updateIntegrationSettings
Partials == UNION {[K -> SettingsValues] : K \in SUBSET SettingsKeys}
\* the registries a stream worker process can be started with
Registries == {{"linkedin"}, {}}
\* the SqsQueueBase objects made for one queue: senders and receivers, in one
\* process or several
Bases == {1, 2, 3}
\* private queueUrl: string | undefined, before init() was called
NoInit == [pc |-> "idle", queueUrl |-> "undefined", err |-> "none"]

\* a tenant with two integrations: their ids, the ids of their runs, and the
\* numbers of stream rows and of settings updates followed
IntegrationIds == {"i1", "i2"}
TenantRunIds == {10, 11}
MaxRows == 2
MaxUpdates == 2

\* LinkedIn: the timestamps of reactions and comments, the length of a page,
\* the number of pages of a listing, and the value of oneMonthAgo
MaxTimestamp == 3
MaxPageLen == 2
MaxCursor == 2
MaxLiStreams == 4
oneMonthAgo == 1
Timestamps == 1..MaxTimestamp
Pages == UNION {[1..n -> Timestamps] : n \in 0..MaxPageLen}
LinkedinStreamType == {"post_comments", "post_reactions", "comment_comments"}
\* settings.posts: undefined, or an array with at most the entry of the post
NoPosts == [defined |-> FALSE, arr |-> <<>>]
NoHandler == [pc |-> "idle", streamId |-> 0, onboarding |-> FALSE, prev |-> 0,
              lastTs |-> 0, page |-> <<>>, elements |-> <<>>, start |-> 0]

\* the callers of ActivityService.upsert, the tenants and the activities they send
Callers == {1, 2}
Tenants == {"t1", "t2"}
SourceIds == {"x"}
Bodies == {"v1", "v2"}
MaxCalls == 3
NoCall == [pc |-> "idle", tenantId |-> "none", sourceId |-> "none", body |-> "none",
           existing |-> 0, created |-> FALSE]

IntegrationRunState == {"PENDING", "PROCESSING", "DELAYED", "ERROR", "PROCESSED"}
IntegrationStreamState == {"PENDING", "PROCESSING", "DELAYED", "ERROR", "PROCESSED"}

VARIABLES
    runs,         \* integration.runs: [state, delayedUntil, error] by run id
    streams,      \* integration.streams: sequence of rows, the id is the index
    data,         \* integration.data: sequence of rows, the id is the index
    runQueue,     \* visible process_run messages, by run id
    streamQueue,  \* visible process_stream messages, by stream id
    dataQueue,    \* process_data messages sent
    rpc,          \* run worker: position in processRun
    rheld,        \* run worker: receipt of the message it holds
    rinfo,        \* run worker: id of the run it is processing (0: none)
    pc,           \* stream worker: position in processStream
    held,         \* stream worker: receipt of the message it holds
    info,         \* stream worker: streamInfo read by getStreamData
    pub,          \* stream worker: the context.publish call under way (the row it has
                  \* inserted and not yet sent), or that the last call failed
    err,          \* stream worker: the error caught from the handler
    until,        \* stream worker: the local `until` of the RateLimitError branch
    timeouts,     \* visibility timeouts that have passed during processing
    now,          \* the clock, in seconds
    queue,        \* an SQS queue: the state of each message it has accepted
    dedupIds,     \* the deduplication ids the queue has seen
    sent,         \* calls of SqsQueueSender.sendMessage made
    ms,           \* new Date().getTime(), in milliseconds
    processingMessages,  \* SqsQueueReceiver.processingMessages
    lpc,          \* SqsQueueReceiver.start: position in the loop
    jobs,         \* the processMessage promise of each message received
    integration,  \* the integrations row of the run: [platform, deletedAt, settings]
    services,     \* INTEGRATION_SERVICES of the stream worker process: platforms registered
    upd,          \* stream worker: the updateIntegrationSettings call the handler has made
    queueExists,  \* SQS: the queue of queueConf.name exists
    base,         \* SqsQueueBase objects: position in init(), queueUrl, error of the last init()
    malformed,    \* the messages of the queue whose Body is not JSON
    started,      \* SqsQueueReceiver.started
    activities,   \* the activities table: rows [id, tenantId, sourceId, body, tx]
    up,           \* ActivityService.upsert calls: position, arguments, `existing`
    upserted,     \* the (tenantId, sourceId) pairs of the upsert calls that have ended
    tables,       \* integrations, integration.runs and integration.streams of a tenant
                  \* with several integrations: settings, integrationId, runId
    lastUpdate,   \* the last context.updateIntegrationSettings call: stream, partial
    li,           \* LinkedIn processStream handler: position, stream, locals
    ctxPosts,     \* LinkedIn: ctx.integration.settings.posts of the handler's context
    storedPosts,  \* LinkedIn: posts of the settings stored for the integration
    liStreams,    \* LinkedIn: the stream rows of the run
    liData,       \* LinkedIn: data.start of each stream row (0: undefined)
    liQueue       \* LinkedIn: process_stream messages, by stream id

vars == <<runs, streams, data, runQueue, streamQueue, dataQueue,
          rpc, rheld, rinfo, pc, held, info, pub, err, until, timeouts, now,
          queue, dedupIds, sent, ms, processingMessages, lpc, jobs,
          integration, services, upd, queueExists, base, malformed, started,
          activities, up, upserted, tables, lastUpdate,
          li, ctxPosts, storedPosts, liStreams, liData, liQueue>>

dbVars == <<runs, streams, data>>
queueVars == <<runQueue, streamQueue, dataQueue>>
clockVars == <<timeouts, now>>
runWorkerVars == <<rpc, rheld, rinfo>>
streamWorkerVars == <<pc, held, info, pub, upd, err, until>>
senderVars == <<dedupIds, sent, ms>>
receiverVars == <<processingMessages, lpc, jobs>>
baseVars == <<queueExists, base>>
sinkVars == <<activities, up, upserted>>
tenantVars == <<tables, lastUpdate>>
linkedinVars == <<li, ctxPosts, storedPosts, liStreams, liData, liQueue>>
moreVars == <<tenantVars, linkedinVars>>
sqsVars == <<queue, senderVars, receiverVars, baseVars, malformed, started, sinkVars,
             moreVars>>
pipelineVars == <<dbVars, queueVars, clockVars, runWorkerVars, streamWorkerVars,
                  integration, services, moreVars>>
\* the variables of the pipeline, of the queue library and of the sink
mainVars == <<dbVars, queueVars, clockVars, runWorkerVars, streamWorkerVars,
              integration, services, queue, senderVars, receiverVars, baseVars,
              malformed, started, sinkVars>>

Min(a, b) == IF a < b THEN a ELSE b

NoInfo == [streamId |-> 0, runId |-> 0, runState |-> "PENDING",
           retries |-> 0, state |-> "PENDING",
           integrationType |-> "", integrationSettings |-> <<>>]

\* no context.updateIntegrationSettings call has been made
NoUpdate == [state |-> "none", partial |-> <<>>, snapshot |-> <<>>]

StreamIds == 1..Len(streams)

\* no context.publish call has been made
NoPublish == [kind |-> "none", id |-> 0, identifier |-> ""]

\* what a handler throws: a RateLimitError with its rateLimitResetSeconds, or another error
NoError == [rateLimit |-> FALSE, rateLimitResetSeconds |-> NULL]
Errors ==
    {NoError} \cup {[rateLimit |-> TRUE, rateLimitResetSeconds |-> r] : r \in RateLimitResetSeconds}

(* --------------------------- addSeconds -------------------------------- *)
addSeconds(date, seconds) == date + seconds

(* ------------------- IntegrationRunRepository -------------------------- *)
\* update integration.runs set state = ERROR, error = ... where id = runId
markRunError(rs, runId, location) ==
    [rs EXCEPT ![runId].state = "ERROR", ![runId].error = location]

\* result.rowCount of the update of markRunError
markRunErrorRowCount(rs, runId) == IF runId \in DOMAIN rs THEN 1 ELSE 0

\* an update that leaves the state of the run as it is
markRunInProgressSkipped(rs, runId) == rs

\* update integration.runs set state = PROCESSING where id = runId
markRunInProgress(rs, runId) ==
    [rs EXCEPT ![runId].state = "PROCESSING"]

\* settings || $(settings)::jsonb with the partial on the left
jsonbConcatKeepOld(settings, partial) ==
    [k \in DOMAIN settings \cup DOMAIN partial |->
        IF k \in DOMAIN settings THEN settings[k] ELSE partial[k]]

\* settings || $(settings)::jsonb of two objects: the keys of both, the value of
\* the right operand where both have the key
jsonbConcat(settings, partial) ==
    [k \in DOMAIN settings \cup DOMAIN partial |->
        IF k \in DOMAIN partial THEN partial[k] ELSE settings[k]]

\* update "integrations" set settings = settings || $(settings)::jsonb
updateIntegrationSettings(i, partial) ==
    [i EXCEPT !.settings = jsonbConcat(@, partial)]

\* getGenerateStreamDataQuery: the run joined with its integration where
\* "deletedAt" is null; no row without either
NoRunData == [runId |-> 0]
getGenerateStreamData(runId) ==
    IF runId \in DOMAIN runs /\ integration.deletedAt = NULL
      THEN [runId |-> runId]
      ELSE NoRunData

\* a count of the streams that are still to be processed
streamCountPending(runId) ==
    Cardinality({i \in StreamIds : streams[i].runId = runId /\ streams[i].state = "PENDING"})

\* stream_count of getGenerateStreamDataQuery
streamCount(runId) ==
    Cardinality({i \in StreamIds : streams[i].runId = runId})

\* insert into the streams table ... state = PENDING; returns the new id
NewStream(runId, parentId, identifier) ==
    [runId |-> runId, parentId |-> parentId, identifier |-> identifier,
     state |-> "PENDING", retries |-> 0, delayedUntil |-> NULL, error |-> "none"]

publishStreamRow(ss, runId, parentId, identifier) ==
    Append(ss, NewStream(runId, parentId, identifier))

(* ------------------ IntegrationStreamRepository ------------------------ *)
\* refuses re-entry from the terminal states
canMarkStreamInProgress(ss, streamId) ==
    ss[streamId].state \notin {"PROCESSED", "ERROR"}

markStreamInProgress(ss, streamId) ==
    [ss EXCEPT ![streamId].state = "PROCESSING"]

markStreamProcessed(ss, streamId) ==
    [ss EXCEPT ![streamId].state = "PROCESSED"]

\* records the error on the stream and counts the failure
markStreamError(ss, streamId, location) ==
    [ss EXCEPT ![streamId].state = "ERROR",
               ![streamId].error = location,
               ![streamId].retries = @ + 1]

delayStream(ss, streamId, date) ==
    [ss EXCEPT ![streamId].state = "DELAYED", ![streamId].delayedUntil = date]

resetStream(ss, streamId) ==
    [ss EXCEPT ![streamId].state = "PENDING",
               ![streamId].error = "none",
               ![streamId].delayedUntil = NULL]

delayRun(rs, runId, date) ==
    [rs EXCEPT ![runId].state = "DELAYED", ![runId].delayedUntil = date]

\* the row getStreamData returns, joined with its run
getStreamData(streamId) ==
    [streamId |-> streamId,
     runId |-> streams[streamId].runId,
     runState |-> runs[streams[streamId].runId].state,
     retries |-> streams[streamId].retries,
     state |-> streams[streamId].state,
     integrationType |-> integration.platform,
     integrationSettings |-> integration.settings]

\* does the run have a stream of this identifier
streamExists(ss, runId, identifier) ==
    \E i \in 1..Len(ss) : ss[i].runId = runId /\ ss[i].identifier = identifier

\* the child row of a stream; no row when the run has the identifier already
publishChildStreamRow(ss, parentId, runId, identifier) ==
    IF streamExists(ss, runId, identifier)
      THEN ss
      ELSE Append(ss, NewStream(runId, parentId, identifier))

publishDataRow(ds, streamId) == Append(ds, [streamId |-> streamId, state |-> "PENDING"])

(* ------------------------------ queues --------------------------------- *)
\* sendMessage: one more visible message for the unit
sendMessage(q, id) == [q EXCEPT ![id] = Min(@ + 1, MaxDup)]

\* deleteMessage with the receipt of a delivery: an expired receipt deletes nothing
\* (the message is visible again and stays in the queue)
StreamReceiptLive(w) == held[w] = "invisible"

\* a FIFO message group delivers nothing while one of its messages is in flight
GroupFree == \A w \in Workers : held[w] # "invisible"

(* ---------------------------- initial state ---------------------------- *)
Init ==
    /\ runs = [r \in RunIds |-> [state |-> "PENDING", delayedUntil |-> NULL, error |-> "none"]]
    /\ streams = <<>>
    /\ data = <<>>
    /\ runQueue = [r \in RunIds |-> 1]
    /\ streamQueue = [i \in 1..MaxStreams |-> 0]
    /\ dataQueue = 0
    /\ rpc = "idle"
    /\ rheld = "none"
    /\ rinfo = 0
    /\ pc = [w \in Workers |-> "idle"]
    /\ held = [w \in Workers |-> "none"]
    /\ info = [w \in Workers |-> NoInfo]
    /\ pub = [w \in Workers |-> NoPublish]
    /\ err = [w \in Workers |-> NoError]
    /\ until = [w \in Workers |-> NULL]
    /\ timeouts = 0
    /\ now = 0
    /\ queue = <<>>
    /\ dedupIds = {}
    /\ sent = 0
    /\ ms = 0
    /\ processingMessages = 0
    /\ lpc = "check"
    /\ jobs = <<>>
    /\ integration = [platform |-> "linkedin", deletedAt |-> NULL, settings |-> InitialSettings]
    /\ services = {"linkedin"}
    /\ upd = [w \in Workers |-> NoUpdate]
    /\ queueExists = FALSE
    /\ base = [b \in Bases |-> NoInit]
    /\ malformed = {}
    /\ started = TRUE
    /\ activities = {}
    /\ up = [c \in Callers |-> NoCall]
    /\ upserted = {}
    /\ tables = [integrations |-> [i \in IntegrationIds |-> InitialSettings],
                 runs |-> [r \in TenantRunIds |-> "none"],
                 streams |-> <<>>]
    /\ lastUpdate = [n |-> 0, streamId |-> 0, partial |-> <<>>]
    /\ li = NoHandler
    /\ ctxPosts = NoPosts
    /\ storedPosts = [defined |-> TRUE, arr |-> <<>>]
    /\ liStreams = <<>>
    /\ liData = <<>>
    /\ liQueue = <<>>

(* ------------------------------- clock --------------------------------- *)
Tick ==
    /\ now < MaxTicks * TickSeconds
    /\ now' = now + TickSeconds
    /\ UNCHANGED <<dbVars, queueVars, runWorkerVars, streamWorkerVars, timeouts, sqsVars, integration, services>>

(* ----------------------------- run worker ------------------------------ *)
PendingStreamsOf(runId) ==
    {i \in StreamIds : streams[i].runId = runId /\ streams[i].state = "PENDING"}

sendAll(q, ids) == [i \in DOMAIN q |-> IF i \in ids THEN Min(q[i] + 1, MaxDup) ELSE q[i]]

\* processRun, getGenerateStreamData returned no row: the message is dropped
RunDrop(r) ==
    /\ rpc = "idle"
    /\ runQueue[r] > 0
    /\ getGenerateStreamData(r) = NoRunData
    /\ runQueue' = [runQueue EXCEPT ![r] = @ - 1]
    /\ UNCHANGED <<dbVars, streamQueue, dataQueue, runWorkerVars, streamWorkerVars, clockVars, sqsVars, integration, services>>

\* processRun, stream count > 0: a resume, the PENDING streams are re-driven
RunResume(r) ==
    /\ rpc = "idle"
    /\ runQueue[r] > 0
    /\ getGenerateStreamData(r) # NoRunData
    /\ streamCount(r) > 0
    /\ runQueue' = [runQueue EXCEPT ![r] = @ - 1]
    /\ streamQueue' = sendAll(streamQueue, PendingStreamsOf(r))
    /\ UNCHANGED <<dbVars, dataQueue, runWorkerVars, streamWorkerVars, clockVars, sqsVars, integration, services>>

\* processRun, no streams yet: mark the run PROCESSING and call generateStreams
RunStart(r) ==
    /\ rpc = "idle"
    /\ runQueue[r] > 0
    /\ getGenerateStreamData(r) # NoRunData
    /\ streamCount(r) = 0
    /\ runQueue' = [runQueue EXCEPT ![r] = @ - 1]
    /\ runs' = markRunInProgress(runs, r)
    /\ rpc' = "generating"
    /\ rheld' = "invisible"
    /\ rinfo' = r
    /\ UNCHANGED <<streams, data, streamQueue, dataQueue, streamWorkerVars, clockVars, sqsVars, integration, services>>

\* generateStreams calls context.publishStream: a root stream row and its message
RunPublish(identifier) ==
    /\ rpc = "generating"
    /\ Len(streams) < MaxStreams
    /\ streams' = publishStreamRow(streams, rinfo, 0, identifier)
    /\ streamQueue' = sendMessage(streamQueue, Len(streams) + 1)
    /\ UNCHANGED <<runs, data, runQueue, dataQueue, runWorkerVars, streamWorkerVars, clockVars, sqsVars, integration, services>>

\* generateStreams returned: the message is deleted
RunDone ==
    /\ rpc = "generating"
    /\ rpc' = "idle"
    /\ rheld' = "none"
    /\ rinfo' = 0
    /\ UNCHANGED <<dbVars, queueVars, streamWorkerVars, clockVars, sqsVars, integration, services>>

\* generateStreams threw: the run is marked ERROR, processRun returns
RunFail ==
    /\ rpc = "generating"
    /\ runs' = markRunError(runs, rinfo, "run-generate-streams")
    /\ rpc' = "idle"
    /\ rheld' = "none"
    /\ rinfo' = 0
    /\ UNCHANGED <<streams, data, queueVars, streamWorkerVars, clockVars, sqsVars, integration, services>>

\* the visibility timeout of the process_run message passes during generateStreams
RunVisibilityTimeout ==
    /\ rpc = "generating"
    /\ rheld = "invisible"
    /\ timeouts < MaxTimeouts
    /\ timeouts' = timeouts + 1
    /\ rheld' = "expired"
    /\ runQueue' = [runQueue EXCEPT ![rinfo] = Min(@ + 1, MaxDup)]
    /\ UNCHANGED <<dbVars, streamQueue, dataQueue, rpc, rinfo, streamWorkerVars, now, sqsVars, integration, services>>

(* ---------------------------- stream worker ---------------------------- *)
\* processMessage resolved: deleteMessage(receipt), removeJob
Resolve(w) ==
    /\ pc' = [pc EXCEPT ![w] = "idle"]
    /\ held' = [held EXCEPT ![w] = "none"]
    /\ info' = [info EXCEPT ![w] = NoInfo]
    /\ pub' = [pub EXCEPT ![w] = NoPublish]
    /\ upd' = [upd EXCEPT ![w] = NoUpdate]
    /\ err' = [err EXCEPT ![w] = NoError]
    /\ until' = [until EXCEPT ![w] = NULL]

\* processMessage rejected: the message is not deleted and becomes visible again
Reject(w) ==
    /\ pc' = [pc EXCEPT ![w] = "idle"]
    /\ held' = [held EXCEPT ![w] = "none"]
    /\ info' = [info EXCEPT ![w] = NoInfo]
    /\ pub' = [pub EXCEPT ![w] = NoPublish]
    /\ upd' = [upd EXCEPT ![w] = NoUpdate]
    /\ err' = [err EXCEPT ![w] = NoError]
    /\ until' = [until EXCEPT ![w] = NULL]
    /\ streamQueue' = IF StreamReceiptLive(w)
                        THEN sendMessage(streamQueue, info[w].streamId)
                        ELSE streamQueue

\* receiveMessage and getStreamData
Pickup(w, s) ==
    /\ pc[w] = "idle"
    /\ \A v \in Workers : v < w => pc[v] # "idle"
    /\ s \in StreamIds
    /\ streamQueue[s] > 0
    /\ GroupFree
    /\ streamQueue' = [streamQueue EXCEPT ![s] = @ - 1]
    /\ held' = [held EXCEPT ![w] = "invisible"]
    /\ info' = [info EXCEPT ![w] = getStreamData(s)]
    /\ pc' = [pc EXCEPT ![w] = "loaded"]
    /\ UNCHANGED <<dbVars, runQueue, dataQueue, runWorkerVars, pub, upd, err, until, clockVars, sqsVars, integration, services>>

\* the handler runs longer than the visibility timeout: the message is visible again
VisibilityTimeout(w) ==
    /\ pc[w] = "handler"
    /\ held[w] = "invisible"
    /\ timeouts < MaxTimeouts
    /\ timeouts' = timeouts + 1
    /\ held' = [held EXCEPT ![w] = "expired"]
    /\ streamQueue' = sendMessage(streamQueue, info[w].streamId)
    /\ UNCHANGED <<dbVars, runQueue, dataQueue, runWorkerVars, pc, info, pub, upd, err, until, now, sqsVars, integration, services>>

\* a check that would also let the streams of a delayed run through
RunStateOkOrDelayed(w) == info[w].runState \in {"PROCESSING", "DELAYED"}

\* the run state read at pickup allows processing
RunStateOk(w) == info[w].runState = "PROCESSING"

\* run is not in processing state: the stream is marked ERROR, nothing is processed
CheckRunState(w) ==
    /\ pc[w] = "loaded"
    /\ ~RunStateOk(w)
    /\ streams[info[w].streamId].retries < RetriesCap
    /\ streams' = markStreamError(streams, info[w].streamId, "check-stream-run-state")
    /\ Resolve(w)
    /\ UNCHANGED <<runs, data, queueVars, runWorkerVars, clockVars, sqsVars, integration, services>>

\* a lookup that finds a service for every platform
hasIntegrationServiceAlways(type) == TRUE

\* singleOrDefault(INTEGRATION_SERVICES, (i) => i.type === streamInfo.integrationType)
hasIntegrationService(type) == type \in services

\* could not find integration service: the stream is marked ERROR, processStream returns
CheckIntegrationService(w) ==
    /\ pc[w] = "loaded"
    /\ RunStateOk(w)
    /\ ~hasIntegrationService(info[w].integrationType)
    /\ streams[info[w].streamId].retries < RetriesCap
    /\ streams' = markStreamError(streams, info[w].streamId, "check-stream-int-service")
    /\ Resolve(w)
    /\ UNCHANGED <<runs, data, queueVars, runWorkerVars, clockVars, sqsVars, integration, services>>

\* markStreamInProgress, then the handler is entered; a refusal rejects processStream
MarkInProgress(w) ==
    /\ pc[w] = "loaded"
    /\ RunStateOk(w)
    /\ hasIntegrationService(info[w].integrationType)
    /\ IF canMarkStreamInProgress(streams, info[w].streamId)
         THEN /\ streams' = markStreamInProgress(streams, info[w].streamId)
              /\ pc' = [pc EXCEPT ![w] = "handler"]
              /\ UNCHANGED <<held, info, pub, upd, err, until, streamQueue>>
         ELSE /\ Reject(w)
              /\ UNCHANGED streams
    /\ UNCHANGED <<runs, data, runQueue, dataQueue, runWorkerVars, clockVars, sqsVars, integration, services>>

(* ----- the platform handler, through the context of processStream ------ *)
\* a context.publish call has inserted its row and not yet sent its message
PublishUnderWay(w) == pub[w].kind \in {"stream", "data"}

\* a publishStream that passes its run id and stream id in each other's place
HandlerPublishStreamSwapped(w, identifier) ==
    /\ pc[w] = "handler"
    /\ ~PublishUnderWay(w)
    /\ Len(streams) < MaxStreams
    /\ streams' = publishChildStreamRow(streams, info[w].runId, info[w].streamId, identifier)
    /\ pub' = [pub EXCEPT ![w] = [kind |-> "stream",
                                  id |-> IF Len(streams') > Len(streams)
                                           THEN Len(streams')
                                           ELSE 0,
                                  identifier |-> identifier]]
    /\ UNCHANGED <<runs, data, queueVars, runWorkerVars, pc, held, info, err, until, clockVars, upd, sqsVars, integration, services>>

\* a publishStream that sends the message of the new stream twice
HandlerSendStreamTwice(w) ==
    /\ pc[w] = "handler"
    /\ pub[w].kind = "stream"
    /\ streamQueue' = IF pub[w].id \in StreamIds
                        THEN sendMessage(sendMessage(streamQueue, pub[w].id), pub[w].id)
                        ELSE streamQueue
    /\ pub' = [pub EXCEPT ![w] = NoPublish]
    /\ UNCHANGED <<dbVars, runQueue, dataQueue, runWorkerVars, pc, held, info, err, until, clockVars, upd, sqsVars, integration, services>>

\* context.publishStream: repo.publishStream(parentId, runId, identifier, data)
\* returns the id of the child row (0: the identifier was there, no row)
HandlerPublishStream(w, identifier) ==
    /\ pc[w] = "handler"
    /\ ~PublishUnderWay(w)
    /\ Len(streams) < MaxStreams
    /\ streams' = publishChildStreamRow(streams, info[w].streamId, info[w].runId, identifier)
    /\ pub' = [pub EXCEPT ![w] = [kind |-> "stream",
                                  id |-> IF Len(streams') > Len(streams)
                                           THEN Len(streams')
                                           ELSE 0,
                                  identifier |-> identifier]]
    /\ UNCHANGED <<runs, data, queueVars, runWorkerVars, pc, held, info, err, until, clockVars, upd, sqsVars, integration, services>>

\* ... then streamWorkerSender.triggerStreamProcessing(tenantId, streamId);
\* a message that names no stream is dropped when it is received
HandlerSendStream(w) ==
    /\ pc[w] = "handler"
    /\ pub[w].kind = "stream"
    /\ streamQueue' = IF pub[w].id \in StreamIds
                        THEN sendMessage(streamQueue, pub[w].id)
                        ELSE streamQueue
    /\ pub' = [pub EXCEPT ![w] = NoPublish]
    /\ UNCHANGED <<dbVars, runQueue, dataQueue, runWorkerVars, pc, held, info, err, until, clockVars, upd, sqsVars, integration, services>>

\* context.publishData: repo.publishData(streamId, data) returns the id of the data row
HandlerPublishData(w) ==
    /\ pc[w] = "handler"
    /\ ~PublishUnderWay(w)
    /\ Len(data) < MaxData
    /\ data' = publishDataRow(data, info[w].streamId)
    /\ pub' = [pub EXCEPT ![w] = [kind |-> "data", id |-> Len(data'), identifier |-> ""]]
    /\ UNCHANGED <<runs, streams, queueVars, runWorkerVars, pc, held, info, err, until, clockVars, upd, sqsVars, integration, services>>

\* ... then dataWorkerSender.triggerDataProcessing(tenantId, dataId)
HandlerSendData(w) ==
    /\ pc[w] = "handler"
    /\ pub[w].kind = "data"
    /\ dataQueue' = dataQueue + 1
    /\ pub' = [pub EXCEPT ![w] = NoPublish]
    /\ UNCHANGED <<dbVars, runQueue, streamQueue, runWorkerVars, pc, held, info, err, until, clockVars, upd, sqsVars, integration, services>>

\* context.updateIntegrationSettings(settings): the repository merges the object
\* into the stored settings
HandlerUpdateSettings(w, partial) ==
    /\ pc[w] = "handler"
    /\ ~PublishUnderWay(w)
    /\ upd[w] = NoUpdate
    /\ integration' = updateIntegrationSettings(integration, partial)
    /\ upd' = [upd EXCEPT ![w] = [state |-> "done", partial |-> partial,
                                  snapshot |-> info[w].integrationSettings]]
    /\ UNCHANGED <<dbVars, queueVars, runWorkerVars, pc, held, info, pub, err, until, clockVars, sqsVars, services>>

\* { ...ctx.integration.settings, posts }: the snapshot of the context with its
\* posts replaced
spreadSettings(settings, posts) ==
    [k \in DOMAIN settings \cup {"posts"} |-> IF k = "posts" THEN posts ELSE settings[k]]

\* (ctx.integration.settings as any).posts || []: the array of the snapshot
\* when it has one, a new array otherwise
isPostsArray(settings) ==
    "posts" \in DOMAIN settings /\ settings["posts"] \in {"[]"} \cup PostsValues

\* setLastReactionTs, setLastCommentTs: the handler records a timestamp in posts,
\* which is the array of the snapshot when the snapshot has one, and passes the
\* whole snapshot to context.updateIntegrationSettings
HandlerSetLastTs(w, posts) ==
    /\ pc[w] = "handler"
    /\ ~PublishUnderWay(w)
    /\ upd[w] = NoUpdate
    /\ integration' = updateIntegrationSettings(integration,
                           spreadSettings(info[w].integrationSettings, posts))
    /\ upd' = [upd EXCEPT ![w] = [state |-> "done",
                                  partial |-> spreadSettings(info[w].integrationSettings, posts),
                                  snapshot |-> info[w].integrationSettings]]
    /\ info' = [info EXCEPT ![w].integrationSettings =
                    IF isPostsArray(@) THEN spreadSettings(@, posts) ELSE @]
    /\ UNCHANGED <<dbVars, queueVars, runWorkerVars, pc, held, pub, err, until, clockVars, sqsVars, services>>

\* the location of the error of a failed publish: of the call under way, or of
\* the call whose insert failed
PublishErrorLocations(kind) ==
    CASE kind = "stream" -> {"run-publish-child-stream"}
      [] kind = "data" -> {"run-publish-stream-data"}
      [] OTHER -> {"run-publish-child-stream", "run-publish-stream-data"}

\* persisting or enqueueing failed inside context.publishStream or publishData:
\* the run is marked ERROR and the error is rethrown to the handler
HandlerPublishFail(w) ==
    /\ pc[w] = "handler"
    /\ \E location \in PublishErrorLocations(pub[w].kind) :
           runs' = markRunError(runs, info[w].runId, location)
    /\ pub' = [pub EXCEPT ![w] = [kind |-> "failed", id |-> 0, identifier |-> ""]]
    /\ UNCHANGED <<streams, data, queueVars, runWorkerVars, pc, held, info, err, until, clockVars, upd, sqsVars, integration, services>>

\* context.abortWithError
HandlerAbort(w) ==
    /\ pc[w] = "handler"
    /\ ~PublishUnderWay(w)
    /\ streams[info[w].streamId].retries < RetriesCap
    /\ streams' = markStreamError(streams, info[w].streamId, "stream-abort")
    /\ UNCHANGED <<runs, data, queueVars, runWorkerVars, streamWorkerVars, clockVars, sqsVars, integration, services>>

\* context.abortRunWithError
HandlerAbortRun(w) ==
    /\ pc[w] = "handler"
    /\ ~PublishUnderWay(w)
    /\ runs' = markRunError(runs, info[w].runId, "stream-run-abort")
    /\ UNCHANGED <<streams, data, queueVars, runWorkerVars, streamWorkerVars, clockVars, sqsVars, integration, services>>

\* the handler returned: markStreamProcessed, processStream resolves
\* this.repo.updateIntegrationSettings throws inside context.updateIntegrationSettings:
\* triggerRunError(streamId, 'run-stream-update-settings', ...), then throw err;
\* when the update of markRunError matches no row, checkUpdateRowCount throws
\* inside the catch block and its error is the one the handler gets
HandlerUpdateSettingsFail(w) ==
    /\ pc[w] = "handler"
    /\ ~PublishUnderWay(w)
    /\ upd[w] = NoUpdate
    /\ runs' = markRunError(runs, info[w].streamId, "run-stream-update-settings")
    /\ upd' = [upd EXCEPT ![w] =
                  [state |-> IF markRunErrorRowCount(runs, info[w].streamId) = 1
                               THEN "failed"
                               ELSE "rowcount",
                   partial |-> <<>>, snapshot |-> <<>>]]
    /\ UNCHANGED <<streams, data, queueVars, runWorkerVars, pc, held, info, pub, err, until, clockVars, sqsVars, integration, services>>

HandlerReturn(w) ==
    /\ pc[w] = "handler"
    /\ ~PublishUnderWay(w)
    /\ streams' = markStreamProcessed(streams, info[w].streamId)
    /\ Resolve(w)
    /\ UNCHANGED <<runs, data, queueVars, runWorkerVars, clockVars, sqsVars, integration, services>>

\* the handler threw: processStream catches the error
HandlerThrow(w, e) ==
    /\ pc[w] = "handler"
    /\ ~PublishUnderWay(w)
    /\ err' = [err EXCEPT ![w] = e]
    /\ pc' = [pc EXCEPT ![w] = "caught"]
    /\ UNCHANGED <<dbVars, queueVars, runWorkerVars, held, info, pub, upd, until, clockVars, sqsVars, integration, services>>

(* --------------------- the catch block of processStream ---------------- *)
\* a test on the truthiness of rateLimitResetSeconds would miss a reset of 0 seconds
IsRateLimitErrorTruthy(e) == e.rateLimit /\ e.rateLimitResetSeconds # 0

\* err instanceof RateLimitError
IsRateLimitError(e) == e.rateLimit

\* a rate limit that is also recorded as a failure of the stream
CatchRateLimitCounted(w) ==
    /\ pc[w] = "caught"
    /\ IsRateLimitError(err[w])
    /\ streams[info[w].streamId].retries < RetriesCap
    /\ until' = [until EXCEPT ![w] = addSeconds(now, err[w].rateLimitResetSeconds)]
    /\ streams' = resetStream(markStreamError(streams, info[w].streamId, "stream-process"),
                              info[w].streamId)
    /\ pc' = [pc EXCEPT ![w] = "reset"]
    /\ UNCHANGED <<runs, data, queueVars, runWorkerVars, held, info, pub, upd, err, clockVars, sqsVars, integration, services>>

\* rate limit: until = now + err.rateLimitResetSeconds, then resetStream
CatchRateLimit(w) ==
    /\ pc[w] = "caught"
    /\ IsRateLimitError(err[w])
    /\ until' = [until EXCEPT ![w] = addSeconds(now, err[w].rateLimitResetSeconds)]
    /\ streams' = resetStream(streams, info[w].streamId)
    /\ pc' = [pc EXCEPT ![w] = "reset"]
    /\ UNCHANGED <<runs, data, queueVars, runWorkerVars, held, info, pub, upd, err, clockVars, sqsVars, integration, services>>

\* a catch block that rethrows the rate limit error after handling it
DelayRunRethrow(w) ==
    /\ pc[w] = "reset"
    /\ runs' = delayRun(runs, info[w].runId, until[w])
    /\ Reject(w)
    /\ UNCHANGED <<streams, data, runQueue, dataQueue, runWorkerVars, clockVars, sqsVars, integration, services>>

\* ... then delayRun(runId, until); processStream resolves
DelayRun(w) ==
    /\ pc[w] = "reset"
    /\ runs' = delayRun(runs, info[w].runId, until[w])
    /\ Resolve(w)
    /\ UNCHANGED <<streams, data, queueVars, runWorkerVars, clockVars, sqsVars, integration, services>>

\* a catch block that goes on to the retry decision without recording the error
CatchErrorUnrecorded(w) ==
    /\ pc[w] = "caught"
    /\ ~IsRateLimitError(err[w])
    /\ pc' = [pc EXCEPT ![w] = "failed"]
    /\ UNCHANGED <<dbVars, queueVars, runWorkerVars, held, info, pub, upd, err, until, clockVars, sqsVars, integration, services>>

\* any other error: triggerStreamError(streamId, 'stream-process', ...)
CatchError(w) ==
    /\ pc[w] = "caught"
    /\ ~IsRateLimitError(err[w])
    /\ streams[info[w].streamId].retries < RetriesCap
    /\ streams' = markStreamError(streams, info[w].streamId, "stream-process")
    /\ pc' = [pc EXCEPT ![w] = "failed"]
    /\ UNCHANGED <<runs, data, queueVars, runWorkerVars, held, info, pub, upd, err, until, clockVars, sqsVars, integration, services>>

\* a budget one retry short
CanRetryStrict(retries) == retries + 1 < maxStreamRetries

\* the delay the comment at the call describes: #retries * 15 minutes
RetryUntilByRetries(date, retries) == addSeconds(date, retries * 15 * 60)

\* streamInfo.retries + 1 <= WORKER_SETTINGS().maxStreamRetries
CanRetry(retries) == retries + 1 <= maxStreamRetries

\* delay for #retries * 15 minutes
RetryUntil(date, retries) == addSeconds(date, (retries + 1) * 15 * 60)

\* ... then delayStream(streamId, until); processStream resolves
RetryStream(w) ==
    /\ pc[w] = "failed"
    /\ CanRetry(info[w].retries)
    /\ streams' = delayStream(streams, info[w].streamId, RetryUntil(now, info[w].retries))
    /\ Resolve(w)
    /\ UNCHANGED <<runs, data, queueVars, runWorkerVars, clockVars, sqsVars, integration, services>>

\* ... or the run is stopped: triggerRunError(runId, 'stream-run-stop', ...)
StopRun(w) ==
    /\ pc[w] = "failed"
    /\ ~CanRetry(info[w].retries)
    /\ runs' = markRunError(runs, info[w].runId, "stream-run-stop")
    /\ Resolve(w)
    /\ UNCHANGED <<streams, data, queueVars, runWorkerVars, clockVars, sqsVars, integration, services>>

(* ------------------------------ sweeper -------------------------------- *)
ActiveStreamsOf(runId) ==
    {i \in StreamIds : /\ streams[i].runId = runId
                       /\ streams[i].state \in {"PENDING", "PROCESSING", "DELAYED"}}

\* the data rows of the run that are still to be processed
ActiveDataOf(runId) ==
    {d \in 1..Len(data) : /\ streams[data[d].streamId].runId = runId
                           /\ data[d].state \in {"PENDING", "PROCESSING", "DELAYED"}}

\* a DELAYED run whose delayedUntil has passed resumes; its PENDING streams are re-enqueued
SweepRun(r) ==
    /\ runs[r].state = "DELAYED"
    /\ runs[r].delayedUntil <= now
    /\ runs' = [runs EXCEPT ![r].state = "PROCESSING", ![r].delayedUntil = NULL]
    /\ streamQueue' = sendAll(streamQueue, PendingStreamsOf(r))
    /\ UNCHANGED <<streams, data, runQueue, dataQueue, runWorkerVars, streamWorkerVars, clockVars, sqsVars, integration, services>>

\* a DELAYED stream whose delayedUntil has passed goes back to PENDING and is re-enqueued
SweepStream(s) ==
    /\ s \in StreamIds
    /\ streams[s].state = "DELAYED"
    /\ streams[s].delayedUntil <= now
    /\ streams' = [streams EXCEPT ![s].state = "PENDING", ![s].delayedUntil = NULL]
    /\ streamQueue' = sendMessage(streamQueue, s)
    /\ UNCHANGED <<runs, data, runQueue, dataQueue, runWorkerVars, streamWorkerVars, clockVars, sqsVars, integration, services>>

\* a PROCESSING run none of whose streams and data rows is PENDING, PROCESSING or
\* DELAYED is PROCESSED
SweepFinish(r) ==
    /\ runs[r].state = "PROCESSING"
    /\ streamCount(r) > 0
    /\ ActiveStreamsOf(r) = {}
    /\ ActiveDataOf(r) = {}
    /\ runs' = [runs EXCEPT ![r].state = "PROCESSED"]
    /\ UNCHANGED <<streams, data, queueVars, runWorkerVars, streamWorkerVars, clockVars, sqsVars, integration, services>>

(* ------------------------------ outside -------------------------------- *)
\* the integration is deleted: integrations."deletedAt" is set
DeleteIntegration ==
    /\ integration.deletedAt = NULL
    /\ integration' = [integration EXCEPT !.deletedAt = now]
    /\ UNCHANGED <<dbVars, queueVars, runWorkerVars, streamWorkerVars, clockVars, sqsVars, services>>

\* the stream worker process is started again, with the registry of its build
StreamWorkerStart(registry) ==
    /\ \A w \in Workers : pc[w] = "idle"
    /\ services # registry
    /\ services' = registry
    /\ UNCHANGED <<dbVars, queueVars, runWorkerVars, streamWorkerVars, clockVars, sqsVars, integration>>

(* --------------------------- SqsQueueBase ------------------------------ *)
\* return this.queueUrl !== undefined
isInitialized(b) == base[b].queueUrl # "undefined"

\* init() is called
InitCall(b) ==
    /\ base[b].pc \in {"idle", "resolved", "rejected"}
    /\ base' = [base EXCEPT ![b].pc = "get", ![b].err = "none"]
    /\ UNCHANGED <<pipelineVars, sinkVars, queue, senderVars, receiverVars, queueExists, malformed, started>>

\* GetQueueUrlCommand succeeds: 'Queue exists!', this.queueUrl = result.QueueUrl
GetQueueUrl(b) ==
    /\ base[b].pc = "get"
    /\ queueExists
    /\ base' = [base EXCEPT ![b].pc = "resolved", ![b].queueUrl = "url"]
    /\ UNCHANGED <<pipelineVars, sinkVars, queue, senderVars, receiverVars, queueExists, malformed, started>>

\* an init() that rethrows QueueDoesNotExist
GetQueueUrlDoesNotExistThrown(b) ==
    /\ base[b].pc = "get"
    /\ ~queueExists
    /\ base' = [base EXCEPT ![b].pc = "rejected", ![b].err = "QueueDoesNotExist"]
    /\ UNCHANGED <<pipelineVars, sinkVars, queue, senderVars, receiverVars, queueExists, malformed, started>>

\* GetQueueUrlCommand fails, err.name === 'QueueDoesNotExist': 'creating...'
GetQueueUrlDoesNotExist(b) ==
    /\ base[b].pc = "get"
    /\ ~queueExists
    /\ base' = [base EXCEPT ![b].pc = "create"]
    /\ UNCHANGED <<pipelineVars, sinkVars, queue, senderVars, receiverVars, queueExists, malformed, started>>

\* GetQueueUrlCommand fails with another error: 'Error checking if queue
\* exists!', throw err
GetQueueUrlFails(b) ==
    /\ base[b].pc = "get"
    /\ base' = [base EXCEPT ![b].pc = "rejected", ![b].err = "other"]
    /\ UNCHANGED <<pipelineVars, sinkVars, queue, senderVars, receiverVars, queueExists, malformed, started>>

\* CreateQueueCommand succeeds: SQS creates the queue, or returns the URL of the
\* queue of that name and these attributes when it exists by now
CreateQueue(b) ==
    /\ base[b].pc = "create"
    /\ queueExists' = TRUE
    /\ base' = [base EXCEPT ![b].pc = "resolved", ![b].queueUrl = "url"]
    /\ UNCHANGED <<pipelineVars, sinkVars, queue, senderVars, receiverVars, malformed, started>>

\* CreateQueueCommand fails: the error leaves the catch block, init() rejects
CreateQueueFails(b) ==
    /\ base[b].pc = "create"
    /\ base' = [base EXCEPT ![b].pc = "rejected", ![b].err = "other"]
    /\ UNCHANGED <<pipelineVars, sinkVars, queue, senderVars, receiverVars, queueExists, malformed, started>>

(* ------------------------- SqsQueueSender ------------------------------ *)
GroupIds == {"t1", "t2"}

\* a deduplication id that also counts the sends of this sender
MessageDeduplicationIdCounted(groupId, time) == <<groupId, time, sent>>

\* `${groupId}-${new Date().getTime()}`: the time is all digits, so the string
\* determines the pair and the pair the string
MessageDeduplicationId(groupId, time) == <<groupId, time>>

\* sendMessage on a FIFO queue: a message whose deduplication id the queue has
\* seen within the deduplication interval is accepted and dropped
SendMessage(groupId) ==
    /\ sent < MaxSends
    /\ sent' = sent + 1
    /\ LET id == MessageDeduplicationId(groupId, ms)
       IN  /\ dedupIds' = dedupIds \cup {id}
           /\ queue' = IF id \in dedupIds THEN queue ELSE Append(queue, "visible")
    /\ UNCHANGED <<ms, receiverVars, pipelineVars, sinkVars, baseVars, malformed, started>>

\* a millisecond passes
MsTick ==
    /\ ms < MaxMs
    /\ ms' = ms + 1
    /\ UNCHANGED <<queue, dedupIds, sent, receiverVars, pipelineVars, sinkVars, baseVars, malformed, started>>

(* ------------------------ SqsQueueReceiver ----------------------------- *)
Messages == 1..Len(queue)
Receipts == 1..Len(jobs)

\* the jobs whose promise chain has not yet run removeJob
InFlight == {r \in Receipts : jobs[r].state # "done"}

\* a test that lets one message more through
isAvailableInclusive == processingMessages <= maxConcurrentMessageProcessing

\* this.processingMessages < this.maxConcurrentMessageProcessing
isAvailable == processingMessages < maxConcurrentMessageProcessing

\* while (this.started): if (this.isAvailable()) receiveMessage() is issued,
\* else timeout(1000) is
LoopCheck ==
    /\ lpc = "check"
    /\ started
    /\ lpc' = IF isAvailable THEN "receive" ELSE "wait"
    /\ UNCHANGED <<queue, senderVars, processingMessages, jobs, pipelineVars, sinkVars, baseVars, malformed, started>>

\* await timeout(1000) is over
LoopWait ==
    /\ lpc = "wait"
    /\ lpc' = "check"
    /\ UNCHANGED <<queue, senderVars, processingMessages, jobs, pipelineVars, sinkVars, baseVars, malformed, started>>

\* receiveMessage returned message m: addJob(), processMessage(...) is started
LoopReceive(m) ==
    /\ lpc = "receive"
    /\ m \in Messages
    /\ queue[m] = "visible"
    /\ m \notin malformed
    /\ Len(jobs) < MaxReceives
    /\ queue' = [queue EXCEPT ![m] = "invisible"]
    /\ processingMessages' = processingMessages + 1
    /\ jobs' = Append(jobs, [msg |-> m, state |-> "processing",
                             outcome |-> "none", deleteCalled |-> FALSE])
    /\ lpc' = "check"
    /\ UNCHANGED <<senderVars, pipelineVars, sinkVars, baseVars, malformed, started>>

\* receiveMessage returned message m whose Body is not JSON: addJob(), then
\* JSON.parse(message.Body) throws, processMessage is not called and start() rejects
LoopReceiveMalformed(m) ==
    /\ lpc = "receive"
    /\ m \in Messages
    /\ queue[m] = "visible"
    /\ m \in malformed
    /\ queue' = [queue EXCEPT ![m] = "invisible"]
    /\ processingMessages' = processingMessages + 1
    /\ lpc' = "thrown"
    /\ UNCHANGED <<senderVars, jobs, pipelineVars, sinkVars, baseVars, malformed, started>>

\* while (this.started) finds started false: start() returns
LoopExit ==
    /\ lpc = "check"
    /\ ~started
    /\ lpc' = "returned"
    /\ UNCHANGED <<queue, senderVars, processingMessages, jobs, pipelineVars, sinkVars, baseVars, malformed, started>>

\* stop(): this.started = false
Stop ==
    /\ started
    /\ started' = FALSE
    /\ UNCHANGED <<queue, senderVars, receiverVars, pipelineVars, sinkVars, baseVars, malformed>>

\* a producer puts a message on the queue; its Body is JSON or is not
Produce(body) ==
    /\ Len(queue) < MaxSends
    /\ queue' = Append(queue, "visible")
    /\ malformed' = IF body = "json" THEN malformed ELSE malformed \cup {Len(queue) + 1}
    /\ UNCHANGED <<senderVars, receiverVars, pipelineVars, sinkVars, baseVars, started>>

\* receiveMessage returned no message
LoopReceiveNone ==
    /\ lpc = "receive"
    /\ lpc' = "check"
    /\ UNCHANGED <<queue, senderVars, processingMessages, jobs, pipelineVars, sinkVars, baseVars, malformed, started>>

\* the promise of processMessage settles
ProcessSettles(r, outcome) ==
    /\ r \in Receipts
    /\ jobs[r].state = "processing"
    /\ jobs' = [jobs EXCEPT ![r].state = "settled", ![r].outcome = outcome]
    /\ UNCHANGED <<queue, senderVars, processingMessages, lpc, pipelineVars, sinkVars, baseVars, malformed, started>>

\* a chain that deletes the message on a failure too
OnRejectedDelete(r) ==
    /\ r \in Receipts
    /\ jobs[r].state = "settled"
    /\ jobs[r].outcome = "rejected"
    /\ jobs' = [jobs EXCEPT ![r].state = "deleting", ![r].deleteCalled = TRUE]
    /\ UNCHANGED <<queue, senderVars, processingMessages, lpc, pipelineVars, sinkVars, baseVars, malformed, started>>

\* .then(async () => { await this.deleteMessage(message.ReceiptHandle) ...
OnResolved(r) ==
    /\ r \in Receipts
    /\ jobs[r].state = "settled"
    /\ jobs[r].outcome = "resolved"
    /\ jobs' = [jobs EXCEPT ![r].state = "deleting", ![r].deleteCalled = TRUE]
    /\ UNCHANGED <<queue, senderVars, processingMessages, lpc, pipelineVars, sinkVars, baseVars, malformed, started>>

\* ... this.removeJob() }): deleteMessage resolved
DeleteResolved(r) ==
    /\ r \in Receipts
    /\ jobs[r].state = "deleting"
    /\ queue' = [queue EXCEPT ![jobs[r].msg] = "deleted"]
    /\ processingMessages' = processingMessages - 1
    /\ jobs' = [jobs EXCEPT ![r].state = "done"]
    /\ UNCHANGED <<senderVars, lpc, pipelineVars, sinkVars, baseVars, malformed, started>>

\* deleteMessage rejected: the rest of the then callback is skipped and
\* .catch(() => this.removeJob()) runs
DeleteRejected(r) ==
    /\ r \in Receipts
    /\ jobs[r].state = "deleting"
    /\ processingMessages' = processingMessages - 1
    /\ jobs' = [jobs EXCEPT ![r].state = "done"]
    /\ UNCHANGED <<queue, senderVars, lpc, pipelineVars, sinkVars, baseVars, malformed, started>>

\* .catch(() => this.removeJob()): processMessage rejected
OnRejected(r) ==
    /\ r \in Receipts
    /\ jobs[r].state = "settled"
    /\ jobs[r].outcome = "rejected"
    /\ processingMessages' = processingMessages - 1
    /\ jobs' = [jobs EXCEPT ![r].state = "done"]
    /\ UNCHANGED <<queue, senderVars, lpc, pipelineVars, sinkVars, baseVars, malformed, started>>

\* the visibility timeout of a message that was not deleted passes
MessageVisibleAgain(m) ==
    /\ m \in Messages
    /\ queue[m] = "invisible"
    /\ \A r \in InFlight : jobs[r].msg # m
    /\ queue' = [queue EXCEPT ![m] = "visible"]
    /\ UNCHANGED <<senderVars, receiverVars, pipelineVars, sinkVars, baseVars, malformed, started>>

(* --------------- settings of the integration of a stream --------------- *)
integrationIdOfRunFirst(rs, runId) == "i1"

\* select "integrationId" from integration.runs where id = $(runId)
integrationIdOfRun(rs, runId) == rs[runId]

\* a run of an integration is triggered: its row in integration.runs
CreateRun(r, i) ==
    /\ tables.runs[r] = "none"
    /\ tables' = [tables EXCEPT !.runs[r] = i]
    /\ UNCHANGED <<lastUpdate, mainVars, linkedinVars>>

\* publishStream: insert into the streams of the run, "integrationId" taken
\* from integration.runs where id = runId (parentId 0: a root stream)
PublishStreamOfRun(r, parentId) ==
    /\ tables.runs[r] # "none"
    /\ Len(tables.streams) < MaxRows
    /\ parentId = 0 \/ (parentId \in 1..Len(tables.streams)
                        /\ tables.streams[parentId].runId = r)
    /\ tables' = [tables EXCEPT !.streams =
                     Append(@, [runId |-> r, parentId |-> parentId,
                                integrationId |-> integrationIdOfRun(tables.runs, r)])]
    /\ UNCHANGED <<lastUpdate, mainVars, linkedinVars>>

\* context.updateIntegrationSettings(partial) of the handler of stream s:
\* this.repo.updateIntegrationSettings(streamId, settings) updates the
\* integration of the stream row
UpdateSettingsOfStream(s, partial) ==
    /\ s \in 1..Len(tables.streams)
    /\ lastUpdate.n < MaxUpdates
    /\ tables' = [tables EXCEPT !.integrations[tables.streams[s].integrationId] =
                     jsonbConcat(@, partial)]
    /\ lastUpdate' = [n |-> lastUpdate.n + 1, streamId |-> s, partial |-> partial]
    /\ UNCHANGED <<mainVars, linkedinVars>>

\* context.updateIntegrationSettings of generateStreams:
\* IntegrationRunRepository.updateIntegrationSettings(runId, settings)
UpdateSettingsOfRun(r, partial) ==
    /\ tables.runs[r] # "none"
    /\ lastUpdate.n < MaxUpdates
    /\ tables' = [tables EXCEPT !.integrations[integrationIdOfRun(tables.runs, r)] =
                     jsonbConcat(@, partial)]
    /\ lastUpdate' = [n |-> lastUpdate.n + 1, streamId |-> 0, partial |-> partial]
    /\ UNCHANGED <<mainVars, linkedinVars>>

identifierOf(type) ==
    CASE type = "post_comments" -> "post_comments-p"
      [] type = "post_reactions" -> "post_reactions-p"
      [] type = "comment_comments" -> "comment_comments-c"

\* ctx.stream.identifier.startsWith(LinkedinStreamType.X)
typeOf(identifier) ==
    CASE identifier = "post_comments-p" -> "post_comments"
      [] identifier = "post_reactions-p" -> "post_reactions"
      [] identifier = "comment_comments-c" -> "comment_comments"
      [] OTHER -> "root"

fieldOf(type) == IF type = "post_reactions" THEN "lastReactionTs" ELSE "lastCommentTs"

\* getLastReactionTs, getLastCommentTs: cachedPost?.lastReactionTs (0: undefined)
getLastTs(posts, field) ==
    IF posts.arr = <<>> THEN 0 ELSE posts.arr[1][field]

\* the array of setLastReactionTs, setLastCommentTs after its update
setLastTs(posts, field, ts) ==
    IF posts.arr = <<>>
      THEN [defined |-> TRUE,
            arr |-> <<[[lastReactionTs |-> 0, lastCommentTs |-> 0] EXCEPT ![field] = ts]>>]
      ELSE [defined |-> TRUE, arr |-> <<[posts.arr[1] EXCEPT ![field] = ts]>>]

LiType == typeOf(liStreams[li.streamId].identifier)

\* generateStreams: the root stream of the run and its message
LiGenerate(onboarding) ==
    /\ liStreams = <<>>
    /\ liStreams' = publishStreamRow(liStreams, 10, 0, "organization")
    /\ liData' = <<0>>
    /\ liQueue' = <<1>>
    /\ li' = [li EXCEPT !.onboarding = onboarding]
    /\ UNCHANGED <<ctxPosts, storedPosts, mainVars, tenantVars>>

\* processStream up to the handler: the context takes the settings read
LiPickup(s) ==
    /\ li.pc = "idle"
    /\ s \in 1..Len(liStreams)
    /\ liQueue[s] > 0
    /\ liStreams[s].state = "PENDING"
    /\ liQueue' = [liQueue EXCEPT ![s] = @ - 1]
    /\ liStreams' = markStreamInProgress(liStreams, s)
    /\ ctxPosts' = storedPosts
    /\ li' = [NoHandler EXCEPT !.pc = "handler", !.streamId = s,
                               !.onboarding = li.onboarding]
    /\ UNCHANGED <<storedPosts, liData, mainVars, tenantVars>>

\* context.publishStream(identifier, {start}) of the handler of stream s
LiPublish(ss, identifier) == publishChildStreamRow(ss, li.streamId, 10, identifier)

\* processRootStream: the two streams of the post
LiRoot ==
    /\ li.pc = "handler"
    /\ LiType = "root"
    /\ LET one == LiPublish(liStreams, identifierOf("post_comments"))
           two == LiPublish(one, identifierOf("post_reactions"))
           new == Len(two) - Len(liStreams)
       IN  /\ liStreams' = two
           /\ liData' = liData \o [i \in 1..new |-> 0]
           /\ liQueue' = liQueue \o [i \in 1..new |-> 1]
    /\ li' = [li EXCEPT !.pc = "return"]
    /\ UNCHANGED <<ctxPosts, storedPosts, mainVars, tenantVars>>

\* processPostReactionsStream, processPostCommentsStream up to the loop: the
\* watermark read from the context, and the page the API returns for the cursor
LiFetch(page, more) ==
    /\ li.pc = "handler"
    /\ LiType \in {"post_reactions", "post_comments"}
    /\ more => liData[li.streamId] < MaxCursor
    /\ LET prev == getLastTs(ctxPosts, fieldOf(LiType))
       IN  li' = [li EXCEPT !.pc = "loop",
                            !.prev = prev,
                            !.lastTs = IF prev = 0 /\ ~li.onboarding THEN oneMonthAgo ELSE prev,
                            !.page = page,
                            !.elements = page,
                            !.start = IF more THEN liData[li.streamId] + 1 ELSE 0]
    /\ UNCHANGED <<ctxPosts, storedPosts, liStreams, liData, liQueue, mainVars, tenantVars>>

\* processCommentCommentsStream up to the loop
LiFetchComments(page, more) ==
    /\ li.pc = "handler"
    /\ LiType = "comment_comments"
    /\ more => liData[li.streamId] < MaxCursor
    /\ li' = [li EXCEPT !.pc = "loop", !.page = page, !.elements = page,
                        !.start = IF more THEN liData[li.streamId] + 1 ELSE 0]
    /\ UNCHANGED <<ctxPosts, storedPosts, liStreams, liData, liQueue, mainVars, tenantVars>>

\* one turn of the loop: reactions.shift(), setLastReactionTs when the local
\* lastReactionTs is undefined or older, publishData
LiElement ==
    /\ li.pc = "loop"
    /\ li.elements # <<>>
    /\ LET ts == Head(li.elements)
           field == fieldOf(LiType)
       IN  IF LiType # "comment_comments" /\ (li.lastTs = 0 \/ li.lastTs < ts)
             THEN /\ storedPosts' = setLastTs(ctxPosts, field, ts)
                  /\ ctxPosts' = IF ctxPosts.defined
                                   THEN setLastTs(ctxPosts, field, ts)
                                   ELSE ctxPosts
             ELSE UNCHANGED <<ctxPosts, storedPosts>>
    /\ li' = [li EXCEPT !.elements = Tail(@)]
    /\ UNCHANGED <<liStreams, liData, liQueue, mainVars, tenantVars>>

\* the stream of the replies to a comment of the page
LiPublishCommentComments ==
    /\ li.pc = "loop"
    /\ LiType = "post_comments"
    /\ ~streamExists(liStreams, 10, identifierOf("comment_comments"))
    /\ liStreams' = LiPublish(liStreams, identifierOf("comment_comments"))
    /\ liData' = Append(liData, 0)
    /\ liQueue' = Append(liQueue, 1)
    /\ UNCHANGED <<li, ctxPosts, storedPosts, mainVars, tenantVars>>

\* after the loop: if (data.start !== undefined) ctx.publishStream(identifier,
\* {..., start: data.start}), the identifier being that of the listing
LiPaginate ==
    /\ li.pc = "loop"
    /\ li.elements = <<>>
    /\ IF li.start # 0
         THEN LET next == LiPublish(liStreams, identifierOf(LiType))
                  new == Len(next) - Len(liStreams)
              IN  /\ liStreams' = next
                  /\ liData' = liData \o [i \in 1..new |-> li.start]
                  /\ liQueue' = liQueue \o [i \in 1..new |-> 1]
         ELSE UNCHANGED <<liStreams, liData, liQueue>>
    /\ li' = [li EXCEPT !.pc = "return"]
    /\ UNCHANGED <<ctxPosts, storedPosts, mainVars, tenantVars>>

\* the handler has returned: markStreamProcessed
LiReturn ==
    /\ li.pc = "return"
    /\ liStreams' = markStreamProcessed(liStreams, li.streamId)
    /\ li' = [NoHandler EXCEPT !.onboarding = li.onboarding]
    /\ UNCHANGED <<ctxPosts, storedPosts, liData, liQueue, mainVars, tenantVars>>

\* every stream of the run is PROCESSED: the next run of the integration starts
\* from the settings this one has stored, with stream rows of its own
LiNextRun ==
    /\ li.pc = "idle"
    /\ liStreams # <<>>
    /\ \A s \in 1..Len(liStreams) : liStreams[s].state = "PROCESSED"
    /\ liStreams' = <<>>
    /\ liData' = <<>>
    /\ liQueue' = <<>>
    /\ UNCHANGED <<li, ctxPosts, storedPosts, mainVars, tenantVars>>

(* ------------------------ ActivityService.upsert ----------------------- *)
\* The rows a transaction reads (READ COMMITTED): the committed rows and its own.
VisibleTo(c) == {a \in activities : a.tx = 0 \/ a.tx = c}

\* ActivityRepository.findOne({sourceId}): a row of the current tenant with the
\* sourceId, or 0
findOne(c, tenantId, sourceId) ==
    LET found == {a \in VisibleTo(c) : a.tenantId = tenantId /\ a.sourceId = sourceId}
    IN  IF found = {} THEN {0} ELSE {a.id : a \in found}

RECURSIVE MaxId(_)
MaxId(rows) ==
    IF rows = {} THEN 0
    ELSE LET a == CHOOSE x \in rows : TRUE
             rest == MaxId(rows \ {a})
         IN  IF a.id > rest THEN a.id ELSE rest

\* the id the table gives to the next row
NextActivityId == MaxId(activities) + 1

RowsOf(tenantId, sourceId) ==
    {a \in activities : a.tx = 0 /\ a.tenantId = tenantId /\ a.sourceId = sourceId}

Ended(c, outcome) ==
    [call |-> Cardinality(upserted) + 1, tenantId |-> up[c].tenantId,
     sourceId |-> up[c].sourceId, outcome |-> outcome]

UniqueViolationNever(tenantId, sourceId) == FALSE

\* the unique index of the activities table on (tenantId, sourceId)
UniqueViolation(tenantId, sourceId) ==
    \E a \in activities : a.tx = 0 /\ a.tenantId = tenantId /\ a.sourceId = sourceId

\* an insert waits for the transaction that holds an uncommitted row of the key
InsertBlocked(c, tenantId, sourceId) ==
    \E a \in activities :
        a.tx # 0 /\ a.tx # c /\ a.tenantId = tenantId /\ a.sourceId = sourceId

\* upsert(data): createTransaction
UpsertBegin(c, tenantId, sourceId, body) ==
    /\ up[c].pc = "idle"
    /\ Cardinality(upserted) + Cardinality({d \in Callers : up[d].pc # "idle"}) < MaxCalls
    /\ up' = [up EXCEPT ![c] = [pc |-> "exists", tenantId |-> tenantId,
                                sourceId |-> sourceId, body |-> body,
                                existing |-> 0, created |-> FALSE]]
    /\ UNCHANGED <<activities, upserted, pipelineVars, queue, senderVars, receiverVars,
                   baseVars, malformed, started>>

\* existing = await this._activityExists(data, transaction)
ActivityExists(c) ==
    /\ up[c].pc = "exists"
    /\ \E id \in findOne(c, up[c].tenantId, up[c].sourceId) :
           up' = [up EXCEPT ![c].existing = id, ![c].pc = "write"]
    /\ UNCHANGED <<activities, upserted, pipelineVars, queue, senderVars, receiverVars,
                   baseVars, malformed, started>>

\* if (existing): ActivityRepository.update(id, merge(existing, data)); the row
\* changes for the others when the transaction commits
Update(c) ==
    /\ up[c].pc = "write"
    /\ up[c].existing # 0
    /\ up' = [up EXCEPT ![c].pc = "commit"]
    /\ UNCHANGED <<activities, upserted, pipelineVars, queue, senderVars, receiverVars,
                   baseVars, malformed, started>>

\* else: ActivityRepository.create(data), inside the transaction
Create(c) ==
    /\ up[c].pc = "write"
    /\ up[c].existing = 0
    /\ ~InsertBlocked(c, up[c].tenantId, up[c].sourceId)
    /\ IF UniqueViolation(up[c].tenantId, up[c].sourceId)
       THEN /\ up' = [up EXCEPT ![c].pc = "unique"]
            /\ UNCHANGED activities
       ELSE /\ activities' = activities \cup
                   {[id |-> NextActivityId, tenantId |-> up[c].tenantId,
                     sourceId |-> up[c].sourceId, body |-> up[c].body, tx |-> c]}
            /\ up' = [up EXCEPT ![c].pc = "commit", ![c].created = TRUE]
    /\ UNCHANGED <<upserted, pipelineVars, queue, senderVars, receiverVars,
                   baseVars, malformed, started>>

\* a later await of the try block throws (getSentiment, addToConversation, ...)
UpsertThrows(c) ==
    /\ up[c].pc = "commit"
    /\ up' = [up EXCEPT ![c].pc = "failed"]
    /\ UNCHANGED <<activities, upserted, pipelineVars, queue, senderVars, receiverVars,
                   baseVars, malformed, started>>

\* SequelizeRepository.commitTransaction(transaction); return record
Commit(c) ==
    /\ up[c].pc = "commit"
    /\ activities' =
           {IF a.tx = c THEN [a EXCEPT !.tx = 0]
            ELSE IF a.id = up[c].existing THEN [a EXCEPT !.body = up[c].body]
            ELSE a : a \in activities}
    /\ upserted' = upserted \cup {Ended(c, "returned")}
    /\ up' = [up EXCEPT ![c] = NoCall]
    /\ UNCHANGED <<pipelineVars, queue, senderVars, receiverVars,
                   baseVars, malformed, started>>

\* catch: SequelizeRepository.rollbackTransaction(transaction); throw error
Rollback(c) ==
    /\ up[c].pc \in {"unique", "failed"}
    /\ activities' = {a \in activities : a.tx # c}
    /\ upserted' = upserted \cup {Ended(c, up[c].pc)}
    /\ up' = [up EXCEPT ![c] = NoCall]
    /\ UNCHANGED <<pipelineVars, queue, senderVars, receiverVars,
                   baseVars, malformed, started>>

Upsert(c) ==
    \/ ActivityExists(c)
    \/ Update(c)
    \/ Create(c)
    \/ UpsertThrows(c)
    \/ Commit(c)
    \/ Rollback(c)

RunWorker ==
    \/ \E r \in RunIds : RunStart(r)
    \/ \E identifier \in RootIdentifiers : RunPublish(identifier)
    \/ RunDone
    \/ RunFail

\* the steps of processStream around the handler
Dispatch(w) ==
    \/ \E s \in 1..MaxStreams : Pickup(w, s)
    \/ CheckRunState(w)
    \/ MarkInProgress(w)

\* the catch block of processStream
Catch(w) ==
    \/ CatchRateLimit(w)
    \/ DelayRun(w)
    \/ CatchError(w)
    \/ RetryStream(w)
    \/ StopRun(w)

\* how a handler ends, and abortRunWithError
Handler(w) ==
    \/ HandlerAbortRun(w)
    \/ HandlerReturn(w)
    \/ \E e \in Errors : HandlerThrow(w, e)

\* what a handler publishes through its context
Publish(w) ==
    \/ \E identifier \in Identifiers : HandlerPublishStream(w, identifier)
    \/ HandlerSendStream(w)
    \/ HandlerPublishData(w)
    \/ HandlerSendData(w)
    \/ HandlerPublishFail(w)

Sweeper ==
    \/ \E r \in RunIds : SweepRun(r)
    \/ \E s \in 1..MaxStreams : SweepStream(s)
    \/ \E r \in RunIds : SweepFinish(r)

\* The pipeline when every delivery is processed within the visibility timeout
\* and no handler calls abortWithError or publishes.
NextFifo ==
    \/ Tick
    \/ RunWorker
    \/ \E w \in Workers : Dispatch(w) \/ Handler(w) \/ Catch(w)
    \/ Sweeper

SpecFifo == Init /\ [][NextFifo]_vars

\* Publishing handlers: a handler publishes child streams and data, a publish may
\* fail, and the handler returns.
NextPublish ==
    \/ \E r \in RunIds : RunStart(r)
    \/ \E identifier \in RootIdentifiers : RunPublish(identifier)
    \/ RunDone
    \/ \E w \in Workers : Dispatch(w) \/ Publish(w) \/ HandlerReturn(w)

SpecPublish == Init /\ [][NextPublish]_vars

\* Failing handlers: a handler may call abortWithError, and then returns, throws
\* an error or throws a RateLimitError; delayed units are resumed by the sweeper.
NextRetry ==
    \/ Tick
    \/ \E r \in RunIds : RunStart(r)
    \/ \E identifier \in RootIdentifiers : RunPublish(identifier)
    \/ RunDone
    \/ \E w \in Workers : Dispatch(w) \/ HandlerAbort(w) \/ HandlerReturn(w) \/ Catch(w)
    \/ \E w \in Workers, e \in Errors : HandlerThrow(w, e)
    \/ \E r \in RunIds : SweepRun(r)
    \/ \E s \in 1..MaxStreams : SweepStream(s)

SpecRetry == Init /\ [][NextRetry]_vars

\* Redelivery: handlers and generateStreams may outlive the visibility timeout of
\* their message, which is then delivered again; handlers return or are rate limited.
NextRedelivery ==
    \/ RunWorker
    \/ \E r \in RunIds : RunResume(r)
    \/ RunVisibilityTimeout
    \/ \E w \in Workers : Dispatch(w) \/ HandlerReturn(w) \/ VisibilityTimeout(w)
    \/ \E w \in Workers, e \in Errors : IsRateLimitError(e) /\ HandlerThrow(w, e)
    \/ \E w \in Workers : CatchRateLimit(w) \/ DelayRun(w)
    \/ \E r \in RunIds : SweepRun(r)
    \/ \E r \in RunIds : SweepFinish(r)

SpecRedelivery == Init /\ [][NextRedelivery]_vars

\* Settings: handlers of streams that overlap (the first outlives the visibility
\* timeout of its message) update the integration settings and return.
NextSettings ==
    \/ \E r \in RunIds : RunStart(r)
    \/ \E identifier \in Identifiers : RunPublish(identifier)
    \/ RunDone
    \/ \E w \in Workers, s \in 1..MaxStreams : Pickup(w, s)
    \/ \E w \in Workers : MarkInProgress(w) \/ VisibilityTimeout(w) \/ HandlerReturn(w)
    \/ \E w \in Workers, partial \in Partials : HandlerUpdateSettings(w, partial)
    \/ \E w \in Workers, posts \in PostsValues : HandlerSetLastTs(w, posts)

SpecSettings == Init /\ [][NextSettings]_vars

\* The integration and the registry: the integration may be deleted and the
\* stream worker restarted without the platform's service while a run is under way.
NextIntegration ==
    \/ \E r \in RunIds : RunStart(r) \/ RunResume(r) \/ RunDrop(r)
    \/ \E identifier \in RootIdentifiers : RunPublish(identifier)
    \/ RunDone
    \/ RunVisibilityTimeout
    \/ DeleteIntegration
    \/ \E registry \in Registries : StreamWorkerStart(registry)
    \/ \E w \in Workers, s \in 1..MaxStreams : Pickup(w, s)
    \/ \E w \in Workers : CheckIntegrationService(w) \/ MarkInProgress(w) \/ HandlerReturn(w)

SpecIntegration == Init /\ [][NextIntegration]_vars

\* Termination: two root streams, handlers that may outlive the visibility
\* timeout, may call abortRunWithError, and return or throw a RateLimitError;
\* generateStreams publishes at least one stream. A handler throws only while
\* the clock can still tick and with a reset time that has not passed, and the
\* clock does not tick within a catch block, so that errors are finitely many and
\* every delay ends within the modelled time.
TickOutsideCatch ==
    /\ \A w \in Workers : pc[w] \notin {"caught", "reset"}
    /\ Tick

ThrowInTime(w, e) ==
    /\ now < MaxTicks * TickSeconds
    /\ HandlerThrow(w, e)

GenerateStreams ==
    \/ \E r \in RunIds : RunStart(r)
    \/ \E identifier \in Identifiers : RunPublish(identifier)
    \/ streamCount(rinfo) > 0 /\ RunDone

HandlerEnds(w) ==
    \/ HandlerReturn(w)
    \/ \E e \in Errors : e.rateLimitResetSeconds > 0 /\ ThrowInTime(w, e)

NextTermination ==
    \/ TickOutsideCatch
    \/ GenerateStreams
    \/ \E w \in Workers : Dispatch(w) \/ CatchRateLimit(w) \/ DelayRun(w)
    \/ \E w \in Workers : VisibilityTimeout(w) \/ HandlerAbortRun(w)
    \/ \E w \in Workers : HandlerEnds(w)
    \/ \E r \in RunIds : SweepRun(r) \/ SweepFinish(r)

\* a step of processStream other than the receipt of the message and the handler
ProcessStreamStep(w) ==
    \/ CheckRunState(w)
    \/ MarkInProgress(w)
    \/ CatchRateLimit(w)
    \/ DelayRun(w)

\* fair scheduling: the clock advances, the run worker and every stream worker
\* take their next step, the queue delivers every message, every handler ends,
\* the sweeper acts on every unit
Fairness ==
    /\ WF_vars(TickOutsideCatch)
    /\ WF_vars(GenerateStreams)
    /\ \A s \in 1..MaxStreams : SF_vars(\E w \in Workers : Pickup(w, s))
    /\ \A w \in Workers : WF_vars(ProcessStreamStep(w))
    /\ \A w \in Workers : WF_vars(HandlerEnds(w))
    /\ \A r \in RunIds : WF_vars(SweepRun(r)) /\ WF_vars(SweepFinish(r))

SpecTermination == Init /\ [][NextTermination]_vars /\ Fairness

\* Queue initialisation: the objects of one queue call init(), any number of
\* times and in any interleaving.
NextInit ==
    \/ \E b \in Bases : InitCall(b)
    \/ \E b \in Bases : GetQueueUrl(b)
    \/ \E b \in Bases : GetQueueUrlDoesNotExist(b)
    \/ \E b \in Bases : GetQueueUrlFails(b)
    \/ \E b \in Bases : CreateQueue(b)
    \/ \E b \in Bases : CreateQueueFails(b)

SpecInit == Init /\ [][NextInit]_vars

\* Finishing runs: handlers publish and return, a handler may outlive the
\* visibility timeout of its message, and the sweeper finishes the run.
NextFinish ==
    \/ \E r \in RunIds : RunStart(r)
    \/ \E identifier \in RootIdentifiers : RunPublish(identifier)
    \/ RunDone
    \/ \E w \in Workers : Dispatch(w) \/ VisibilityTimeout(w) \/ HandlerReturn(w)
    \/ \E w \in Workers, identifier \in Identifiers : HandlerPublishStream(w, identifier)
    \/ \E w \in Workers : HandlerSendStream(w) \/ HandlerPublishData(w) \/ HandlerSendData(w)
    \/ \E r \in RunIds : SweepFinish(r)

SpecFinish == Init /\ [][NextFinish]_vars

Sender ==
    \/ \E groupId \in GroupIds : SendMessage(groupId)
    \/ MsTick

ReceiveLoop ==
    \/ LoopCheck
    \/ LoopWait
    \/ \E m \in 1..MaxSends : LoopReceive(m)
    \/ LoopReceiveNone

PromiseChain(r) ==
    \/ \E outcome \in {"resolved", "rejected"} : ProcessSettles(r, outcome)
    \/ OnResolved(r)
    \/ DeleteResolved(r)
    \/ DeleteRejected(r)
    \/ OnRejected(r)

\* one sender and one receiver on one queue
NextQueue ==
    \/ Sender
    \/ ReceiveLoop
    \/ \E r \in 1..MaxReceives : PromiseChain(r)
    \/ \E m \in 1..MaxSends : MessageVisibleAgain(m)

SpecQueue == Init /\ [][NextQueue]_vars

\* The receive loop on a queue that any producer writes to, until stop().
\* Several integrations of a tenant, their runs and streams, and the settings
\* updates of their handlers.
NextTenant ==
    \/ \E r \in TenantRunIds, i \in IntegrationIds : CreateRun(r, i)
    \/ \E r \in TenantRunIds, parentId \in 0..MaxRows : PublishStreamOfRun(r, parentId)
    \/ \E s \in 1..MaxRows, partial \in Partials : UpdateSettingsOfStream(s, partial)
    \/ \E r \in TenantRunIds, partial \in Partials : UpdateSettingsOfRun(r, partial)

SpecTenant == Init /\ [][NextTenant]_vars

\* A run of a LinkedIn integration with one post: the streams of the post's
\* comments and reactions, page by page.
NextLinkedin ==
    \/ \E onboarding \in BOOLEAN : LiGenerate(onboarding)
    \/ \E s \in 1..MaxLiStreams : LiPickup(s)
    \/ LiRoot
    \/ \E page \in Pages, more \in BOOLEAN : LiFetch(page, more)
    \/ \E page \in Pages, more \in BOOLEAN : LiFetchComments(page, more)
    \/ LiElement
    \/ LiPublishCommentComments
    \/ LiPaginate
    \/ LiReturn
    \/ LiNextRun

SpecLinkedin == Init /\ [][NextLinkedin]_vars

\* Handlers whose context calls fail: the insert or the send of publishStream and
\* publishData, the update of updateIntegrationSettings.
NextContextFail ==
    \/ \E r \in RunIds : RunStart(r)
    \/ \E identifier \in RootIdentifiers : RunPublish(identifier)
    \/ RunDone
    \/ \E w \in Workers : Dispatch(w) \/ Publish(w) \/ HandlerReturn(w)
    \/ \E w \in Workers : HandlerUpdateSettingsFail(w)

SpecContextFail == Init /\ [][NextContextFail]_vars

\* Concurrent calls of ActivityService.upsert, each in its own transaction.
NextUpsert ==
    \/ \E c \in Callers, t \in Tenants, sid \in SourceIds, b \in Bodies :
           UpsertBegin(c, t, sid, b)
    \/ \E c \in Callers : Upsert(c)

SpecUpsert == Init /\ [][NextUpsert]_vars

NextReceive ==
    \/ \E body \in {"json", "text"} : Produce(body)
    \/ ReceiveLoop
    \/ \E m \in 1..MaxSends : LoopReceiveMalformed(m)
    \/ LoopExit
    \/ Stop
    \/ \E r \in 1..MaxReceives : PromiseChain(r)
    \/ \E m \in 1..MaxSends : MessageVisibleAgain(m)

SpecReceive == Init /\ [][NextReceive]_vars

\* fair scheduling of the loop and of the promise chains
ReceiveFairness ==
    /\ WF_vars(ReceiveLoop)
    /\ WF_vars(\E m \in 1..MaxSends : LoopReceiveMalformed(m))
    /\ WF_vars(LoopExit)
    /\ \A r \in 1..MaxReceives : WF_vars(PromiseChain(r))

SpecReceiveFair == Init /\ [][NextReceive]_vars /\ ReceiveFairness

\* every operation of the model
Next ==
    \/ NextLinkedin
    \/ NextTenant
    \/ NextContextFail
    \/ NextUpsert
    \/ NextFifo
    \/ NextPublish
    \/ NextRetry
    \/ NextRedelivery
    \/ NextFinish
    \/ NextTermination
    \/ NextSettings
    \/ NextIntegration
    \/ NextInit
    \/ NextQueue
    \/ NextReceive

Spec == Init /\ [][Next]_vars

(* ------------------------------- claims -------------------------------- *)
RunEdges ==
    {<<"PENDING", "PROCESSING">>, <<"PROCESSING", "PROCESSED">>,
     <<"PROCESSING", "ERROR">>, <<"PROCESSING", "DELAYED">>,
     <<"DELAYED", "PROCESSING">>}

RunOf(s) == runs[streams[s].runId]

\* C1: a run's state only changes along PENDING->PROCESSING, PROCESSING->PROCESSED,
\* PROCESSING->ERROR, PROCESSING->DELAYED and DELAYED->PROCESSING; in particular a
\* PROCESSED or ERROR run never changes state again.
C1_RunStateEdges ==
    [][\A r \in RunIds :
         runs'[r].state # runs[r].state
           => <<runs[r].state, runs'[r].state>> \in RunEdges]_vars

\* C2: a process_stream message delivered for a stream that is already PROCESSED
\* is a no-op: the handler is not entered, no stream or data row is created, no
\* message is sent, and the states of the stream and of its run stay as they were.
C2_ProcessedRedeliveryNoOp ==
    [][\A w \in Workers :
         (pc[w] = "loaded" /\ info[w].state = "PROCESSED" /\ pc'[w] # "loaded")
           => /\ pc'[w] = "idle"
              /\ streams' = streams
              /\ runs' = runs
              /\ data' = data
              /\ dataQueue' = dataQueue
              /\ runQueue' = runQueue
              /\ streamQueue' \in {streamQueue, sendMessage(streamQueue, info[w].streamId)}]_vars

\* C3: no two workers are inside the handler for the same stream at the same time,
\* also when the message is delivered again after its visibility timeout while the
\* first handler is still running.
C3_OneHandlerPerStream ==
    \A w1, w2 \in Workers :
        (w1 # w2 /\ pc[w1] = "handler" /\ pc[w2] = "handler")
          => info[w1].streamId # info[w2].streamId

\* C4: the handler is entered only if the run state read at pickup is PROCESSING;
\* for every other run state the stream is marked ERROR with location
\* 'check-stream-run-state', the handler is not entered, and no row is created and
\* no message is sent.
C4_HandlerOnlyIfRunProcessing ==
    [][\A w \in Workers :
         /\ pc'[w] = "handler" => info'[w].runState = "PROCESSING"
         /\ (pc[w] = "loaded" /\ info[w].runState # "PROCESSING" /\ pc'[w] # "loaded")
              => /\ pc'[w] = "idle"
                 /\ streams'[info[w].streamId].state = "ERROR"
                 /\ streams'[info[w].streamId].error = "check-stream-run-state"
                 /\ Len(streams') = Len(streams)
                 /\ data' = data
                 /\ queueVars' = queueVars
                 /\ runs' = runs]_vars

C4_Witness ==
    \E s \in StreamIds :
        /\ streams[s].state = "ERROR"
        /\ streams[s].error = "check-stream-run-state"
        /\ RunOf(s).state \in {"DELAYED", "ERROR", "PROCESSED"}

\* C5: when the retries of a stream are exhausted, the stream's ERROR and the
\* run's ERROR are one atomic change: in no state is the stream ERROR from the
\* exhausted retry while its run is still PROCESSING.
C5_ExhaustionAtomic ==
    \A w \in Workers :
        ~ /\ pc[w] = "failed"
          /\ info[w].retries + 1 > maxStreamRetries
          /\ streams[info[w].streamId].state = "ERROR"
          /\ runs[info[w].runId].state = "PROCESSING"

\* C6: with maxStreamRetries = N and a handler that always throws a non-rate-limit
\* error, each of the first N failures leaves the stream DELAYED and the run
\* PROCESSING; failure N+1 leaves the stream ERROR with retries = N+1 and the run
\* ERROR with location 'stream-run-stop'.
C6_RetryExhaustion ==
    [][\A w \in Workers :
         LET s == info[w].streamId
             r == info[w].runId
             k == info[w].retries
         IN  /\ (pc[w] = "caught" /\ ~err[w].rateLimit /\ pc'[w] # "caught"
                   /\ streams[s].retries = k)
                  => /\ pc'[w] = "failed"
                     /\ streams'[s].retries = k + 1
                     /\ streams'[s].state = "ERROR"
             /\ (pc[w] = "failed" /\ pc'[w] # "failed" /\ streams[s].retries = k + 1)
                  => IF k < maxStreamRetries
                       THEN /\ streams'[s].state = "DELAYED"
                            /\ runs'[r].state = "PROCESSING"
                       ELSE k = maxStreamRetries
                              => /\ streams'[s].state = "ERROR"
                                 /\ streams'[s].retries = maxStreamRetries + 1
                                 /\ runs'[r].state = "ERROR"
                                 /\ runs'[r].error = "stream-run-stop"]_vars

C6_Witness ==
    \E s \in StreamIds :
        /\ streams[s].state = "ERROR"
        /\ streams[s].error = "stream-process"
        /\ streams[s].retries = maxStreamRetries + 1
        /\ RunOf(s).state = "ERROR"
        /\ RunOf(s).error = "stream-run-stop"

\* C7: a stream's retries never exceed maxStreamRetries + 1, and a stream with
\* retries = maxStreamRetries + 1 is in state ERROR.
C7_RetriesBounded ==
    \A s \in StreamIds :
        /\ streams[s].retries <= maxStreamRetries + 1
        /\ streams[s].retries = maxStreamRetries + 1 => streams[s].state = "ERROR"

\* C8: a stream in PROCESSING or DELAYED has its run in PROCESSING or DELAYED, also
\* after abortRunWithError, after a failed publish, and after a handler error
\* followed by delayStream.
C8_ActiveStreamActiveRun ==
    \A s \in StreamIds :
        streams[s].state \in {"PROCESSING", "DELAYED"}
          => RunOf(s).state \in {"PROCESSING", "DELAYED"}

\* C9: when the handler throws RateLimitError with rateLimitResetSeconds = r >= 0
\* (r = 0 included), processStream leaves the stream PENDING with its retries
\* unchanged and no error, and the run DELAYED with delayedUntil = the time the
\* error was handled + r.
C9_RateLimitDelaysRun ==
    [][\A w \in Workers :
         LET s == info[w].streamId
             r == info[w].runId
         IN  /\ (pc[w] = "caught" /\ err[w].rateLimit /\ pc'[w] # "caught")
                  => /\ pc'[w] = "reset"
                     /\ until'[w] = now + err[w].rateLimitResetSeconds
                     /\ streams'[s].state = "PENDING"
                     /\ streams'[s].retries = streams[s].retries
                     /\ streams'[s].error = "none"
             /\ (pc[w] = "reset" /\ pc'[w] # "reset")
                  => /\ pc'[w] = "idle"
                     /\ runs'[r].state = "DELAYED"
                     /\ runs'[r].delayedUntil = until[w]
                     /\ streams'[s].state = "PENDING"
                     /\ streams'[s].retries = streams[s].retries
                     /\ streams'[s].error = "none"]_vars

\* a run delayed by a reset of 0 seconds, its stream PENDING again with the
\* retries of an earlier failure
C9_Witness ==
    \E s \in StreamIds :
        /\ streams[s].state = "PENDING"
        /\ streams[s].error = "none"
        /\ streams[s].retries > 0
        /\ RunOf(s).state = "DELAYED"
        /\ RunOf(s).delayedUntil = now
        /\ now > 0

C11_RetriesMonotone ==
    [][/\ \A s \in StreamIds : streams'[s].retries >= streams[s].retries
       /\ \A w \in Workers :
            (/\ \/ pc[w] = "caught" /\ err[w].rateLimit
                \/ pc[w] = "reset"
             /\ pc'[w] # pc[w])
              => streams'[info[w].streamId].retries = streams[info[w].streamId].retries]_vars

\* a rate limit is being handled for a stream that has failed before
C11_Witness ==
    \E w \in Workers :
        /\ pc[w] = "reset"
        /\ streams[info[w].streamId].retries > 0
        /\ streams[info[w].streamId].state = "PENDING"

TerminalStreamStates == {"PROCESSED", "ERROR"}

\* C12: once a stream is PROCESSED or ERROR, no later write of any worker
\* (markStreamInProgress, markStreamProcessed, markStreamError, delayStream,
\* resetStream) changes its state.
C12_TerminalStreamStateKept ==
    [][\A s \in StreamIds :
         streams[s].state \in TerminalStreamStates
           => streams'[s].state = streams[s].state]_vars

\* C13: when the handler throws, rate limit or not, the message of that delivery
\* is not deleted: it is in the queue again when processStream is done.
C13_ThrowKeepsMessage ==
    [][\A w \in Workers :
         (pc[w] \in {"reset", "failed"} /\ pc'[w] = "idle" /\ held[w] = "invisible")
           => streamQueue' = sendMessage(streamQueue, info[w].streamId)]_vars

\* C13, as the code has it: when the handler throws, processStream handles the
\* error and resolves, and the message of that delivery is deleted; a message is
\* left in the queue only when processStream itself rejects.
C13_ThrowDeletesMessage ==
    [][\A w \in Workers :
         (pc[w] # "idle" /\ pc'[w] = "idle" /\ held[w] = "invisible")
           => IF pc[w] \in {"reset", "failed"}
                THEN held'[w] = "none" /\ streamQueue' = streamQueue
                ELSE streamQueue' # streamQueue
                       => /\ pc[w] = "loaded"
                          /\ streamQueue' = sendMessage(streamQueue, info[w].streamId)]_vars

\* a handler has thrown, its stream is delayed, and no message for it is left
C13_Witness ==
    \E s \in StreamIds :
        /\ streams[s].state = "DELAYED"
        /\ streams[s].error = "stream-process"
        /\ streamQueue[s] = 0
        /\ \A w \in Workers : pc[w] = "idle"

C18_IdentifierUniquePerRun ==
    \A i, j \in StreamIds :
        (i # j /\ streams[i].runId = streams[j].runId)
          => streams[i].identifier # streams[j].identifier

\* C19: each successful context.publishStream made while processing stream s
\* creates exactly one stream row (PENDING, parentId = s, the run of s, the given
\* identifier) and sends exactly one process_stream message for it; each
\* successful context.publishData creates exactly one data row of s and sends
\* exactly one process_data message; the row is persisted before the message is sent.
C19_PublishOneRowOneMessage ==
    [][\A w \in Workers :
         /\ (~PublishUnderWay(w) /\ pub'[w].kind = "stream")
              => /\ streams' = Append(streams, [runId |-> info[w].runId,
                                                 parentId |-> info[w].streamId,
                                                 identifier |-> pub'[w].identifier,
                                                 state |-> "PENDING", retries |-> 0,
                                                 delayedUntil |-> NULL, error |-> "none"])
                 /\ streamQueue' = streamQueue
         /\ (pub[w].kind = "stream" /\ pub'[w].kind = "none")
              => /\ pub[w].id \in StreamIds
                 /\ streamQueue' = [streamQueue EXCEPT ![pub[w].id] = @ + 1]
                 /\ streams' = streams
         /\ (~PublishUnderWay(w) /\ pub'[w].kind = "data")
              => /\ data' = Append(data, [streamId |-> info[w].streamId, state |-> "PENDING"])
                 /\ dataQueue' = dataQueue
         /\ (pub[w].kind = "data" /\ pub'[w].kind = "none")
              => /\ pub[w].id \in 1..Len(data)
                 /\ dataQueue' = dataQueue + 1
                 /\ data' = data]_vars

\* C19, as the code has it: the same for a publishStream whose identifier the run
\* does not have yet; one whose identifier the run has already creates no row.
C19_PublishFreshOneRowOneMessage ==
    [][\A w \in Workers :
         /\ (~PublishUnderWay(w) /\ pub'[w].kind = "stream")
              => /\ streamQueue' = streamQueue
                 /\ IF streamExists(streams, info[w].runId, pub'[w].identifier)
                      THEN streams' = streams /\ pub'[w].id = 0
                      ELSE /\ pub'[w].id = Len(streams) + 1
                           /\ streams' = Append(streams,
                                                [runId |-> info[w].runId,
                                                 parentId |-> info[w].streamId,
                                                 identifier |-> pub'[w].identifier,
                                                 state |-> "PENDING", retries |-> 0,
                                                 delayedUntil |-> NULL, error |-> "none"])
         /\ (pub[w].kind = "stream" /\ pub'[w].kind = "none")
              => /\ streams' = streams
                 /\ pub[w].id # 0
                      => /\ pub[w].id \in StreamIds
                         /\ streamQueue' = [streamQueue EXCEPT ![pub[w].id] = @ + 1]
         /\ (~PublishUnderWay(w) /\ pub'[w].kind = "data")
              => /\ data' = Append(data, [streamId |-> info[w].streamId, state |-> "PENDING"])
                 /\ dataQueue' = dataQueue
         /\ (pub[w].kind = "data" /\ pub'[w].kind = "none")
              => /\ pub[w].id \in 1..Len(data)
                 /\ dataQueue' = dataQueue + 1
                 /\ data' = data]_vars

\* a handler has published a child stream and a data row, and both messages are sent
C19_Witness ==
    \E s \in StreamIds :
        /\ streams[s].parentId # 0
        /\ streamQueue[s] = 1
        /\ Len(data) = 1
        /\ data[1].streamId = streams[s].parentId
        /\ dataQueue = 1
        /\ \A w \in Workers : ~PublishUnderWay(w)

\* C20: every stream's runId names an existing run, and the parentId of a stream
\* that has one names an existing stream of the same run.
C20_StreamReferences ==
    \A s \in StreamIds :
        /\ streams[s].runId \in RunIds
        /\ streams[s].parentId # 0
             => /\ streams[s].parentId \in StreamIds
                /\ streams[streams[s].parentId].runId = streams[s].runId

C20_Witness ==
    \E s \in StreamIds :
        /\ streams[s].parentId \in StreamIds
        /\ streams[s].parentId # s
        /\ streams[s].identifier = "b"

\* C14: in the receive loop deleteMessage is called for a receipt if and only if
\* processMessage for it resolved, and only after processMessage has completed;
\* when processMessage rejects, deleteMessage is never called for that receipt
\* and the message is not deleted.
C14_DeleteIffResolved ==
    [][/\ \A r \in Receipts :
            /\ jobs[r].deleteCalled => jobs[r].outcome = "resolved"
            /\ jobs[r].outcome = "rejected" => ~jobs[r].deleteCalled
            /\ (jobs[r].state = "done" /\ jobs[r].outcome = "resolved")
                 => jobs[r].deleteCalled
            /\ (~jobs[r].deleteCalled /\ jobs'[r].deleteCalled)
                 => jobs[r].state = "settled" /\ jobs[r].outcome = "resolved"
       /\ \A m \in Messages :
            (queue[m] # "deleted" /\ queue'[m] = "deleted")
              => \E r \in Receipts : /\ jobs[r].msg = m
                                     /\ jobs[r].outcome = "resolved"
                                     /\ jobs[r].deleteCalled]_vars

\* one message was received twice: its first processMessage rejected and it was
\* not deleted, the second resolved and it was deleted
C14_Witness ==
    \E r1, r2 \in Receipts :
        /\ r1 < r2
        /\ jobs[r1].msg = jobs[r2].msg
        /\ jobs[r1].state = "done" /\ jobs[r1].outcome = "rejected"
        /\ jobs[r2].state = "done" /\ jobs[r2].outcome = "resolved"
        /\ queue[jobs[r2].msg] = "deleted"

\* C16: the number of messages a receiver is processing concurrently is at most
\* maxConcurrentMessageProcessing, and the loop never issues a receive while that
\* number is maxConcurrentMessageProcessing or more.
C16_ConcurrencyBounded ==
    [][/\ processingMessages = Cardinality(InFlight)
       /\ Cardinality(InFlight) <= maxConcurrentMessageProcessing
       /\ lpc = "receive" => Cardinality(InFlight) < maxConcurrentMessageProcessing
       /\ (lpc # "receive" /\ lpc' = "receive")
            => Cardinality(InFlight) < maxConcurrentMessageProcessing]_vars

\* the receiver is at its limit and waits instead of receiving a visible message
C16_Witness ==
    /\ Cardinality(InFlight) = maxConcurrentMessageProcessing
    /\ lpc = "wait"
    /\ \E m \in Messages : queue[m] = "visible"

\* C17: on a FIFO queue any two sendMessage calls with the same group id, also
\* two within the same millisecond, have distinct deduplication ids: no message
\* sent is dropped as a duplicate.
C17_NoSendDropped == Len(queue) = sent

\* C23: once a handler has called abortWithError, the stream is ERROR with
\* location 'stream-abort' and stays so through the rest of processStream,
\* whether the handler returns or throws; the abort does not change the run.
C23_AbortKeepsStreamError ==
    [][\A w \in Workers :
         LET s == info[w].streamId
         IN  /\ (/\ pc[w] \in {"handler", "caught", "failed", "reset"}
                 /\ pc'[w] # pc[w]
                 /\ streams[s].state = "ERROR"
                 /\ streams[s].error = "stream-abort")
                  => /\ streams'[s].state = "ERROR"
                     /\ streams'[s].error = "stream-abort"
             /\ (/\ pc[w] = "handler"
                 /\ pc'[w] = "handler"
                 /\ streams[s].error # "stream-abort"
                 /\ streams'[s].error = "stream-abort")
                  => /\ streams'[s].state = "ERROR"
                     /\ runs' = runs]_vars

\* C24: when a handler's abortRunWithError has completed the run is ERROR with
\* location 'stream-run-abort'; from then on no handler is started for a stream
\* of that run, and a pickup of such a stream ends with the stream in ERROR.
C24_NoHandlerAfterRunAbort ==
    [][\A w \in Workers :
         LET s == info[w].streamId
             r == info[w].runId
         IN  /\ (/\ pc[w] = "handler"
                 /\ runs[r].error # "stream-run-abort"
                 /\ runs'[r].error = "stream-run-abort")
                  => runs'[r].state = "ERROR"
             /\ (pc[w] = "loaded" /\ pc'[w] = "handler")
                  => runs[r].error # "stream-run-abort"
             /\ (/\ pc[w] = "loaded"
                 /\ pc'[w] = "idle"
                 /\ runs[r].error = "stream-run-abort")
                  => streams'[s].state = "ERROR"]_vars

\* C26: a rate limit only pauses the run: the sweeper resumes the DELAYED run
\* to PROCESSING and re-enqueues its PENDING streams, and no stream of the run
\* is put in ERROR because it was picked up while the run was DELAYED.
C26_RateLimitOnlyPauses ==
    [][/\ \A r \in RunIds :
            (runs[r].state = "DELAYED" /\ runs'[r].state # "DELAYED" /\ runs'[r].error = runs[r].error)
              => /\ runs'[r].state = "PROCESSING"
                 /\ \A s \in PendingStreamsOf(r) : streamQueue'[s] > 0
       /\ \A w \in Workers :
            (/\ pc[w] = "loaded"
             /\ pc'[w] = "idle"
             /\ info[w].runState = "DELAYED"
             /\ info[w].state = "PENDING")
              => streams'[info[w].streamId].state # "ERROR"]_vars

\* C28: generateStreams is invoked at most once for a run over all deliveries
\* of its process_run message: it starts only for a run that was never started
\* (a started run has left PENDING); a delivery that finds streams of the run
\* does not invoke it and only re-publishes the run's PENDING streams.
C28_GenerateStreamsOnce ==
    [][/\ (rpc = "idle" /\ rpc' = "generating") => runs[rinfo'].state = "PENDING"
       /\ \A r \in RunIds :
            (/\ rpc = "idle"
             /\ runQueue'[r] < runQueue[r]
             /\ getGenerateStreamData(r) # NoRunData
             /\ \E i \in StreamIds : streams[i].runId = r)
              => /\ rpc' = "idle"
                 /\ dbVars' = dbVars
                 /\ streamQueue' = sendAll(streamQueue, PendingStreamsOf(r))]_vars

\* C28, as the code has it: a delivery that finds streams of the run does not
\* invoke generateStreams and only re-publishes the run's PENDING streams;
\* generateStreams starts only for a run that has no stream at that moment.
C28_GenerateStreamsOnlyWithoutStreams ==
    [][/\ (rpc = "idle" /\ rpc' = "generating")
            => \A i \in StreamIds : streams[i].runId # rinfo'
       /\ \A r \in RunIds :
            (/\ rpc = "idle"
             /\ runQueue'[r] < runQueue[r]
             /\ getGenerateStreamData(r) # NoRunData
             /\ \E i \in StreamIds : streams[i].runId = r)
              => /\ rpc' = "idle"
                 /\ dbVars' = dbVars
                 /\ streamQueue' = sendAll(streamQueue, PendingStreamsOf(r))]_vars

\* the process_run message was delivered again after generateStreams, as a resume:
\* a PENDING stream has its first message and a second one from the resume
C28_Witness ==
    \E r \in RunIds, s \in StreamIds :
        /\ rpc = "idle"
        /\ runQueue[r] = 0
        /\ runs[r].state = "PROCESSING"
        /\ streams[s].runId = r
        /\ streams[s].state = "PENDING"
        /\ streamQueue[s] = 2

\* C25: while a run is PROCESSED none of its streams and data rows is PENDING,
\* PROCESSING or DELAYED: not when the run becomes PROCESSED, and not later by a
\* handler in flight that publishes a child stream or a data item.
C25_ProcessedRunHasNoActiveUnit ==
    \A r \in RunIds :
        runs[r].state = "PROCESSED"
          => ActiveStreamsOf(r) = {} /\ ActiveDataOf(r) = {}

\* C29: a process_run message handled for a run whose integration has been
\* deleted leaves the run in ERROR with location 'run-check-integration' and
\* does not invoke generateStreams.
C29_DeletedIntegrationMarksRunError ==
    [][\A r \in RunIds :
          (/\ rpc = "idle"
           /\ runQueue'[r] < runQueue[r]
           /\ integration.deletedAt # NULL)
            => /\ runs'[r].state = "ERROR"
               /\ runs'[r].error = "run-check-integration"
               /\ rpc' = "idle"]_vars

\* C30: when no integration service is registered for the platform of a stream
\* whose run is PROCESSING, processStream marks the stream ERROR with location
\* 'check-stream-int-service', enters no handler, leaves the runs as they are
\* and returns: the message is deleted, not made visible again.
C30_MissingServiceMarksStreamError ==
    [][\A w \in Workers :
          (/\ pc[w] = "loaded"
           /\ pc'[w] # "loaded"
           /\ info[w].runState = "PROCESSING"
           /\ info[w].integrationType \notin services)
            => /\ pc'[w] = "idle"
               /\ streams'[info[w].streamId].state = "ERROR"
               /\ streams'[info[w].streamId].error = "check-stream-int-service"
               /\ runs' = runs
               /\ streamQueue' = streamQueue]_vars

\* a stream was refused for its missing service while its run is PROCESSING
C30_Witness ==
    \E s \in StreamIds :
        /\ streams[s].state = "ERROR"
        /\ streams[s].error = "check-stream-int-service"
        /\ runs[streams[s].runId].state = "PROCESSING"
        /\ streamQueue[s] = 0

\* C21: after updateIntegrationSettings(partial) the stored settings have every
\* top-level key of partial with partial's value and every other top-level key
\* with the value it had before, and no further key.
C21_ShallowMerge ==
    [][\A w \in Workers :
          (upd[w].state = "none" /\ upd'[w].state = "done")
            => LET partial == upd'[w].partial
                   before == integration.settings
                   after == integration'.settings
               IN  /\ DOMAIN after = DOMAIN before \cup DOMAIN partial
                   /\ \A k \in DOMAIN partial : after[k] = partial[k]
                   /\ \A k \in DOMAIN before \ DOMAIN partial : after[k] = before[k]]_vars

\* the update of the example: {"lastSync": "2024-01-01"} merged into the settings
\* {"posts": [], "lastSync": null}
C21_Witness ==
    \E w \in Workers :
        /\ upd[w].state = "done"
        /\ DOMAIN upd[w].partial = {"lastSync"}
        /\ upd[w].partial["lastSync"] = "2024-01-01"
        /\ info[w].integrationSettings = InitialSettings
        /\ integration.settings = [InitialSettings EXCEPT !["lastSync"] = "2024-01-01"]

\* the top-level keys a handler changed: those it passed with a value other than
\* the one its snapshot had when it made the call
Changes(w) ==
    {k \in DOMAIN upd[w].partial :
        k \notin DOMAIN upd[w].snapshot
          \/ upd[w].partial[k] # upd[w].snapshot[k]}

\* C22: when the handlers of two streams of a run, each with the snapshot of its
\* pickup, have both recorded changes to different top-level keys, the stored
\* settings have both changes.
C22_ConcurrentUpdatesKeepBothKeys ==
    \A w1, w2 \in Workers :
        (/\ w1 # w2
         /\ upd[w1].state = "done"
         /\ upd[w2].state = "done"
         /\ info[w1].streamId # info[w2].streamId
         /\ info[w1].runId = info[w2].runId
         /\ Changes(w1) # {}
         /\ Changes(w2) # {}
         /\ Changes(w1) \cap Changes(w2) = {})
          => \A w \in {w1, w2} : \A k \in Changes(w) :
                 integration.settings[k] = upd[w].partial[k]

\* C27: under fair scheduling every run that reached PROCESSING is eventually
\* PROCESSED or ERROR, and every stream of it is eventually PROCESSED or ERROR.
C27_Termination ==
    /\ \A r \in RunIds :
          (runs[r].state = "PROCESSING") ~> (runs[r].state \in {"PROCESSED", "ERROR"})
    /\ \A s \in 1..MaxStreams :
          <>(s \in StreamIds)
            => <>(s \in StreamIds /\ streams[s].state \in TerminalStreamStates)

\* no stream worker has received a message of a stream yet
NoStreamReceived ==
    /\ timeouts = 0
    /\ \A w \in Workers : pc[w] = "idle"
    /\ \A s \in StreamIds : streamQueue[s] = 1

\* C31: processRun for a PENDING run without streams marks the run PROCESSING;
\* every publishStream of generateStreams inserts exactly one row of the run,
\* PENDING and without parent, and sends exactly one process_stream message for
\* it; when generateStreams returns, the rows of the run are the published ones,
\* all PENDING roots with one message each, and the run is PROCESSING.
C31_RootFanOut ==
    [][/\ (rpc = "idle" /\ rpc' = "generating")
            => /\ runs[rinfo'].state = "PENDING"
               /\ streamCount(rinfo') = 0
               /\ runs'[rinfo'].state = "PROCESSING"
               /\ streams' = streams
               /\ streamQueue' = streamQueue
       /\ (rpc = "generating" /\ streams' # streams /\ streamWorkerVars' = streamWorkerVars)
            => /\ streams' = Append(streams, [runId |-> rinfo, parentId |-> 0,
                                              identifier |-> streams'[Len(streams')].identifier,
                                              state |-> "PENDING", retries |-> 0,
                                              delayedUntil |-> NULL, error |-> "none"])
               /\ streamQueue' = [streamQueue EXCEPT ![Len(streams')] = 1]
               /\ streamQueue[Len(streams')] = 0
       /\ (rpc = "generating" /\ rpc' = "idle" /\ NoStreamReceived)
            => /\ runs'[rinfo].state = "PROCESSING"
               /\ \A s \in StreamIds :
                     /\ streams'[s].runId = rinfo
                     /\ streams'[s].state = "PENDING"
                     /\ streams'[s].parentId = 0]_vars

\* processRun has returned after a generateStreams that published the identifiers
\* a and b: two PENDING root rows, two messages, the run PROCESSING
C31_Witness ==
    /\ rpc = "idle"
    /\ runQueue[10] = 0
    /\ runs[10].state = "PROCESSING"
    /\ Len(streams) = 2
    /\ {streams[s].identifier : s \in StreamIds} = {"a", "b"}
    /\ \A s \in StreamIds :
          streams[s].state = "PENDING" /\ streams[s].parentId = 0 /\ streamQueue[s] = 1
    /\ NoStreamReceived

\* C32: init() is idempotent. Whenever an init() resolves, the queue exists and
\* the caller is initialized (its queue URL is set), whether the queue existed
\* before or not and whatever other callers did in between; the queue, once it
\* exists, stays; an initialized caller has an existing queue. An init() rejects
\* only for an error other than the queue not existing, and then leaves the
\* caller's queue URL as it was: unset for a caller that was not initialized.
C32_InitIdempotent ==
    [][\A b \in Bases :
          /\ (base[b].pc # "resolved" /\ base'[b].pc = "resolved")
               => /\ queueExists'
                  /\ base'[b].queueUrl = "url"
          /\ (base[b].pc # "rejected" /\ base'[b].pc = "rejected")
               => /\ base'[b].err = "other"
                  /\ base'[b].queueUrl = base[b].queueUrl
                  /\ queueExists' = queueExists
          /\ queueExists => queueExists'
          /\ isInitialized(b) => (queueExists /\ base'[b].queueUrl = base[b].queueUrl)]_vars

\* every caller of init() is initialized and the queue exists
C32_Witness ==
    /\ queueExists
    /\ \A b \in Bases : base[b].pc = "resolved" /\ isInitialized(b)

\* C37: the in-flight counter of the receiver is exact: it is the number of
\* messages received whose processing has not ended with removeJob, for every
\* outcome of a received message (processMessage resolved or rejected,
\* deleteMessage rejected, a Body that is not JSON); so it is never negative and
\* is 0 whenever no message is being processed.
C37_CounterExact ==
    /\ processingMessages >= 0
    /\ processingMessages = Cardinality(InFlight)

\* the processing of the r-th message received has ended with removeJob
Completed(r) == r \in Receipts /\ jobs[r].state = "done"

\* C35: while the receiver is started, the loop waits and does not poll when the
\* in-flight count is at the maximum, and after every completion of a unit,
\* resolved or rejected, it eventually issues another receive (unless stop() is
\* called).
C35_LoopDoesNotStarve ==
    /\ [][(started /\ lpc = "check" /\ lpc' # "check"
              /\ processingMessages >= maxConcurrentMessageProcessing)
            => lpc' = "wait"]_vars
    /\ \A r \in 1..MaxReceives :
          <>Completed(r) => <>(Completed(r) /\ <>(lpc = "receive" \/ ~started))

\* C40: when persisting or enqueueing fails inside context.publishStream,
\* context.publishData or context.updateIntegrationSettings, the run that owns
\* the stream is marked ERROR with the location of the call, and the error the
\* handler gets is the original one.
C40_FailedContextCallMarksRunError ==
    [][\A w \in Workers :
          /\ (pub[w].kind # "failed" /\ pub'[w].kind = "failed")
                => /\ runs'[info[w].runId].state = "ERROR"
                   /\ runs'[info[w].runId].error \in PublishErrorLocations(pub[w].kind)
          /\ (upd[w].state = "none" /\ upd'[w].state \in {"failed", "rowcount"})
                => /\ runs'[info[w].runId].state = "ERROR"
                   /\ runs'[info[w].runId].error = "run-stream-update-settings"
                   /\ upd'[w].state = "failed"]_vars

\* C36: the integration snapshot of a handler's context has the same value at
\* every step of the handler: neither context.updateIntegrationSettings nor the
\* watermark helpers of the handler modify it.
C36_SnapshotUnchanged ==
    [][\A w \in Workers :
          (pc[w] = "handler" /\ pc'[w] = "handler")
            => /\ info'[w].integrationType = info[w].integrationType
               /\ info'[w].integrationSettings = info[w].integrationSettings]_vars

\* C38: when the page of a post-reactions, post-comments or comment-comments
\* stream comes with a continuation cursor, the handler's publishStream creates
\* a further stream that carries the cursor, PENDING, and enqueues its message.
C38_PaginationContinues ==
    [][(li.pc = "loop" /\ li'.pc = "return" /\ li.start # 0)
          => /\ Len(liStreams') = Len(liStreams) + 1
             /\ liStreams'[Len(liStreams')].state = "PENDING"
             /\ liData'[Len(liStreams')] = li.start
             /\ liQueue'[Len(liStreams')] = 1]_vars

RECURSIVE MaxOf(_, _)
MaxOf(n, seq) ==
    IF seq = <<>> THEN n
    ELSE MaxOf(IF Head(seq) > n THEN Head(seq) ELSE n, Tail(seq))

\* C39: when the post-reactions (post-comments) handler has processed a page,
\* the lastReactionTs (lastCommentTs) stored for the post is the maximum of its
\* previous value and the timestamps of the page, whatever the order of the page.
C39_WatermarkIsMax ==
    (li.pc = "return" /\ LiType \in {"post_reactions", "post_comments"})
      => getLastTs(storedPosts, fieldOf(LiType)) = MaxOf(li.prev, li.page)

====
